---- MODULE Spec2Model ----
(***************************************************************************)
(* A model of lumi-filter: typed filter fields, the model compiler         *)
(* (ModelMeta), the filter/order pipeline (Model) and the iterable         *)
(* backend.  Python strings are sequences of one-character strings, so     *)
(* that split, startswith, concatenation and parsing are computed.         *)
(***************************************************************************)
EXTENDS Integers, Sequences, FiniteSets, TLC

VARIABLES
    attrs,         \* class body handed to ModelMeta.__new__: sequence of field declarations
    cls,           \* outcome of ModelMeta.__new__: status and the two compiled tables
    data,          \* Model.data of the instance (a Python list of records)
    request_args,  \* Model.request_args: dict, as its sequence of (key, value) items
    orig,          \* the data the instance was constructed with
    prev,          \* data before the last operation
    last,          \* the last operation, its arguments and the exception it raised
    steps,         \* number of operations performed
    meta,          \* options of the class body's inner Meta class (schema, fields, extra_field)
    mapping,       \* ClassHierarchyMapping.data of a mapping instance: dict from class to value
    sub,           \* a subclass of the compiled class: its own class body and its compiled tables
    shared,        \* class attributes AutoQueryModel.data and AutoQueryModel.request_args
    callers        \* the calls of AutoQueryModel in progress: arguments, position, locals, result

vars == <<attrs, cls, data, request_args, orig, prev, last, steps, meta, mapping, sub, shared, callers>>

(***************************************************************************)
(* Characters and strings                                                  *)
(***************************************************************************)

\* The characters of the model in code-point order (str comparison is by code point).
Alphabet ==
    << " ", "!", "'", ",", "-", ".", "0", "1", "2", "3", "4", "5", "6", "7", "8", "9", ":",
       "F", "N", "O", "T", "_",
       "a", "b", "c", "d", "e", "f", "g", "i", "l", "n", "o", "p", "r", "s", "t", "u", "x",
       "{", "}" >>

Digits == {"0", "1", "2", "3", "4", "5", "6", "7", "8", "9"}

CharOrd(c) == CHOOSE k \in 1..Len(Alphabet) : Alphabet[k] = c

DigitVal(c) == CharOrd(c) - CharOrd("0")

\* str.lower() on one character
LowerChar(c) ==
    CASE c = "N" -> "n"
      [] c = "O" -> "o"
      [] c = "T" -> "t"
      [] c = "F" -> "f"
      [] OTHER -> c

\* str.lower()
Lower(s) == [k \in 1..Len(s) |-> LowerChar(s[k])]

IsPrefix(p, s) == Len(p) <= Len(s) /\ SubSeq(s, 1, Len(p)) = p

\* `a in b` for two str
IsSubstr(a, b) ==
    \E k \in 0..(Len(b) - Len(a)) : SubSeq(b, k + 1, k + Len(a)) = a

RECURSIVE StrLess(_, _)
\* a < b for two str
StrLess(a, b) ==
    IF b = <<>> THEN FALSE
    ELSE IF a = <<>> THEN TRUE
    ELSE IF Head(a) = Head(b) THEN StrLess(Tail(a), Tail(b))
    ELSE CharOrd(Head(a)) < CharOrd(Head(b))

RECURSIVE Split(_, _)
\* str.split(sep) for a one-character separator: always at least one part
Split(s, sep) ==
    IF \A k \in 1..Len(s) : s[k] # sep THEN <<s>>
    ELSE LET k == CHOOSE j \in 1..Len(s) :
                     s[j] = sep /\ \A h \in 1..(j - 1) : s[h] # sep
         IN <<SubSeq(s, 1, k - 1)>> \o Split(SubSeq(s, k + 1, Len(s)), sep)

RECURSIVE Replace(_, _, _)
\* str.replace(old, new) for a one-character old and new
Replace(s, old, new) ==
    IF s = <<>> THEN <<>>
    ELSE <<IF Head(s) = old THEN new ELSE Head(s)>> \o Replace(Tail(s), old, new)

IsDigits(s) == s # <<>> /\ \A k \in 1..Len(s) : s[k] \in Digits

RECURSIVE DigitsVal(_)
DigitsVal(s) ==
    IF s = <<>> THEN 0
    ELSE 10 * DigitsVal(SubSeq(s, 1, Len(s) - 1)) + DigitVal(s[Len(s)])

RECURSIVE Pow10(_)
Pow10(n) == IF n = 0 THEN 1 ELSE 10 * Pow10(n - 1)

Reverse(s) == [k \in 1..Len(s) |-> s[Len(s) + 1 - k]]

(***************************************************************************)
(* Python values.  t is the runtime type; i and e carry the number          *)
(* (int/bool: i; Decimal: i / 10^e; date: i = yyyymmdd; datetime: i =       *)
(* yyyymmdd and e = second of the day), s the characters of a str and m the *)
(* items of a dict.  None is the value of type "none".                      *)
(***************************************************************************)

NoMap == [k \in {} |-> 0]

PyNone == [t |-> "none", i |-> 0, e |-> 0, s |-> <<>>, m |-> NoMap]
PyInt(n) == [t |-> "int", i |-> n, e |-> 0, s |-> <<>>, m |-> NoMap]
PyBool(b) == [t |-> "bool", i |-> IF b THEN 1 ELSE 0, e |-> 0, s |-> <<>>, m |-> NoMap]
PyDec(n, sc) == [t |-> "dec", i |-> n, e |-> sc, s |-> <<>>, m |-> NoMap]
PyStr(x) == [t |-> "str", i |-> 0, e |-> 0, s |-> x, m |-> NoMap]
PyDate(n) == [t |-> "date", i |-> n, e |-> 0, s |-> <<>>, m |-> NoMap]
PyDateTime(n, sec) == [t |-> "datetime", i |-> n, e |-> sec, s |-> <<>>, m |-> NoMap]
PyDict(f) == [t |-> "map", i |-> 0, e |-> 0, s |-> <<>>, m |-> f]

IsNum(v) == v.t \in {"int", "bool", "dec"}

Scale(v) == IF v.t = "dec" THEN v.e ELSE 0

\* -1, 0, 1 for two numbers (int, bool and Decimal compare by value)
NumCmp(a, b) ==
    LET x == a.i * Pow10(Scale(b))
        y == b.i * Pow10(Scale(a))
    IN IF x < y THEN -1 ELSE IF x > y THEN 1 ELSE 0

\* Whether < is defined between the two values (otherwise it raises TypeError)
Comparable(a, b) ==
    \/ IsNum(a) /\ IsNum(b)
    \/ a.t = b.t /\ a.t \in {"str", "date", "datetime"}

\* -1, 0, 1 for two comparable values
Cmp3(a, b) ==
    CASE IsNum(a) -> NumCmp(a, b)
      [] a.t = "str" -> IF a.s = b.s THEN 0 ELSE IF StrLess(a.s, b.s) THEN -1 ELSE 1
      [] a.t = "date" -> IF a.i < b.i THEN -1 ELSE IF a.i > b.i THEN 1 ELSE 0
      [] OTHER -> IF a.i < b.i \/ (a.i = b.i /\ a.e < b.e) THEN -1
                  ELSE IF a.i = b.i /\ a.e = b.e THEN 0 ELSE 1

RECURSIVE PyEq(_, _)
\* a == b: never raises; values of unrelated types are unequal
PyEq(a, b) ==
    CASE IsNum(a) /\ IsNum(b) -> NumCmp(a, b) = 0
      [] a.t = "map" /\ b.t = "map" ->
            /\ DOMAIN a.m = DOMAIN b.m
            /\ \A k \in DOMAIN a.m : PyEq(a.m[k], b.m[k])
      [] a.t = b.t /\ a.t \in {"str", "date", "datetime"} -> Cmp3(a, b) = 0
      [] OTHER -> a.t = "none" /\ b.t = "none"

(***************************************************************************)
(* operator.py and the lookup operator map of IterableBackend               *)
(***************************************************************************)

\* An operator's outcome: a truth value, or the exception it raised
Truth(b) == [err |-> "none", val |-> b]
Raised(x) == [err |-> x, val |-> FALSE]

RECURSIVE NatText(_)
\* str(n) for an int n >= 0
NatText(n) ==
    IF n < 10 THEN <<Alphabet[CharOrd("0") + n]>>
    ELSE NatText(n \div 10) \o <<Alphabet[CharOrd("0") + (n % 10)]>>

RECURSIVE ZeroPad(_, _)
\* the digits s right-justified with zeros to width w
ZeroPad(s, w) == IF Len(s) >= w THEN s ELSE ZeroPad(<<"0">> \o s, w)

IntText(n) == IF n < 0 THEN <<"-">> \o NatText(-n) ELSE NatText(n)

\* str(Decimal): the coefficient with the point e digits from the right
DecText(n, sc) ==
    LET mag == IF n < 0 THEN -n ELSE n
        ds == ZeroPad(NatText(mag), sc + 1)
        body == IF sc = 0 THEN ds
                ELSE SubSeq(ds, 1, Len(ds) - sc) \o <<".">> \o SubSeq(ds, Len(ds) - sc + 1, Len(ds))
    IN IF n < 0 THEN <<"-">> \o body ELSE body

\* str(date): YYYY-MM-DD
DateText(n) ==
    ZeroPad(NatText(n \div 10000), 4) \o <<"-">> \o ZeroPad(NatText((n \div 100) % 100), 2)
        \o <<"-">> \o ZeroPad(NatText(n % 100), 2)

\* str(datetime): YYYY-MM-DD HH:MM:SS
DateTimeText(n, sec) ==
    DateText(n) \o <<" ">> \o ZeroPad(NatText(sec \div 3600), 2) \o <<":">>
        \o ZeroPad(NatText((sec \div 60) % 60), 2) \o <<":">> \o ZeroPad(NatText(sec % 60), 2)

\* the elements of a finite set of str in increasing order
RECURSIVE SortedKeys(_)
SortedKeys(S) ==
    IF S = {} THEN <<>>
    ELSE LET k == CHOOSE x \in S : \A y \in S : x = y \/ StrLess(x, y)
         IN <<k>> \o SortedKeys(S \ {k})

RECURSIVE Text(_)
\* str(v); the items of a dict are written in the order of SortedKeys,
\* the order in which the records of the model were built
Text(v) ==
    CASE v.t = "str" -> v.s
      [] v.t = "int" -> IntText(v.i)
      [] v.t = "bool" -> IF v.i = 1 THEN <<"T", "r", "u", "e">> ELSE <<"F", "a", "l", "s", "e">>
      [] v.t = "none" -> <<"N", "o", "n", "e">>
      [] v.t = "dec" -> DecText(v.i, v.e)
      [] v.t = "date" -> DateText(v.i)
      [] v.t = "datetime" -> DateTimeText(v.i, v.e)
      [] OTHER ->
            LET ks == SortedKeys(DOMAIN v.m)
                RECURSIVE Items(_)
                Items(j) ==
                    IF j > Len(ks) THEN <<>>
                    ELSE (IF j > 1 THEN <<",", " ">> ELSE <<>>)
                         \o <<"'">> \o ks[j] \o <<"'", ":", " ">>
                         \o (IF v.m[ks[j]].t = "str"
                             THEN <<"'">> \o v.m[ks[j]].s \o <<"'">>
                             ELSE Text(v.m[ks[j]]))
                         \o Items(j + 1)
            IN <<"{">> \o Items(1) \o <<"}">>

\* str(right) in str(left)
generic_like_operator(left, right) == Truth(IsSubstr(Text(right), Text(left)))

\* str(right).lower() in str(left).lower()
generic_ilike_operator(left, right) ==
    Truth(IsSubstr(Lower(Text(right)), Lower(Text(left))))

\* left in right, and left == right when `in` raises TypeError
generic_in_operator(left, right) ==
    CASE right.t = "str" /\ left.t = "str" -> Truth(IsSubstr(left.s, right.s))
      [] right.t = "map" /\ left.t \in {"str", "int", "bool", "dec", "none", "date", "datetime"} ->
            Truth(\E k \in DOMAIN right.m : PyEq(PyStr(k), left))
      [] OTHER -> Truth(PyEq(left, right))

\* operator.ge, le, gt, lt: TypeError between values that do not order
Ordering(left, right, rel) ==
    IF Comparable(left, right)
    THEN Truth(LET c == Cmp3(left, right)
               IN CASE rel = "ge" -> c >= 0
                    [] rel = "le" -> c <= 0
                    [] rel = "gt" -> c > 0
                    [] OTHER -> c < 0)
    ELSE Raised("TypeError")

L_eq == <<>>
L_ne == <<"!">>
L_gte == <<"g", "t", "e">>
L_lte == <<"l", "t", "e">>
L_gt == <<"g", "t">>
L_lt == <<"l", "t">>
L_contains == <<"c", "o", "n", "t", "a", "i", "n", "s">>
L_icontains == <<"i", "c", "o", "n", "t", "a", "i", "n", "s">>
L_in == <<"i", "n">>
L_nin == <<"n", "i", "n">>

\* The keys of IterableBackend.LOOKUP_EXPR_OPERATOR_MAP
IterableLookups ==
    {L_eq, L_ne, L_gte, L_lte, L_gt, L_lt, L_contains, L_icontains, L_in}

\* The keys of PeeweeBackend.LOOKUP_EXPR_OPERATOR_MAP
PeeweeLookups ==
    {L_eq, L_ne, L_gte, L_lte, L_gt, L_lt, L_contains, L_icontains, L_in}

\* IterableBackend.LOOKUP_EXPR_OPERATOR_MAP[lookup_expr](left, right);
\* a lookup that is not a key of the map raises KeyError
LOOKUP_EXPR_OPERATOR_MAP(lookup_expr, left, right) ==
    CASE lookup_expr = L_eq -> Truth(PyEq(left, right))
      [] lookup_expr = L_ne -> Truth(~PyEq(left, right))
      [] lookup_expr = L_gte -> Ordering(left, right, "ge")
      [] lookup_expr = L_lte -> Ordering(left, right, "le")
      [] lookup_expr = L_gt -> Ordering(left, right, "gt")
      [] lookup_expr = L_lt -> Ordering(left, right, "lt")
      [] lookup_expr = L_contains -> generic_like_operator(left, right)
      [] lookup_expr = L_icontains -> generic_ilike_operator(left, right)
      [] lookup_expr = L_in -> generic_in_operator(left, right)
      [] OTHER -> Raised("KeyError")


(***************************************************************************)
(* field.py: the filter field classes                                       *)
(***************************************************************************)

FieldKinds ==
    {"FilterField", "IntField", "StrField", "DecimalField", "BooleanField",
     "DateField", "DateTimeField"}

\* Mutant of SUPPORTED_LOOKUP_EXPR: BooleanField without its override of the
\* comparisons
SUPPORTED_LOOKUP_EXPR_of_IntField(kind) ==
    CASE kind \in {"FilterField", "StrField"} ->
            {<<>>, <<"!">>, <<"g", "t">>, <<"l", "t">>, <<"g", "t", "e">>,
             <<"l", "t", "e">>, <<"i", "n">>, <<"n", "i", "n">>}
      [] OTHER -> {<<>>, <<"!">>, <<"g", "t">>, <<"l", "t">>, <<"g", "t", "e">>,
                   <<"l", "t", "e">>}

\* FilterField.SUPPORTED_LOOKUP_EXPR and its overrides
SUPPORTED_LOOKUP_EXPR(kind) ==
    CASE kind \in {"FilterField", "StrField"} ->
            {L_eq, L_ne, L_gt, L_lt, L_gte, L_lte, L_in, L_nin}
      [] kind = "BooleanField" -> {L_eq}
      [] OTHER -> {L_eq, L_ne, L_gt, L_lt, L_gte, L_lte}

\* parse_value's result: (parsed_value, is_valid)
Valid(v) == [value |-> v, is_valid |-> TRUE]
Invalid == [value |-> PyNone, is_valid |-> FALSE]

\* The characters of the request strings the numeric and date parsers are computed
\* for: none of them spells an exponent, an infinity or a NaN
ValueChars ==
    Digits \cup {" ", "-", ".", ":", "_", "T", "N", "O", "b", "n", "o", "t", "u", "x"}

OverValueChars(s) == \A k \in 1..Len(s) : s[k] \in ValueChars

RECURSIVE Strip(_)
\* str.strip() of the blanks of the model
Strip(s) ==
    IF s # <<>> /\ Head(s) = " " THEN Strip(Tail(s))
    ELSE IF s # <<>> /\ s[Len(s)] = " " THEN Strip(SubSeq(s, 1, Len(s) - 1))
    ELSE s

Unsigned(s) == IF s # <<>> /\ Head(s) = "-" THEN Tail(s) ELSE s

Signed(s, n) == IF s # <<>> /\ Head(s) = "-" THEN -n ELSE n

\* str.replace("_", "")
DropUnderscores(s) == SelectSeq(s, LAMBDA c : c # "_")

\* int(str): blanks stripped, an optional sign, digits with single underscores between them
IntLiteral(s) ==
    LET b == Unsigned(Strip(s))
    IN /\ b # <<>>
       /\ \A k \in 1..Len(b) : b[k] \in Digits \cup {"_"}
       /\ b[1] # "_" /\ b[Len(b)] # "_"
       /\ \A k \in 1..(Len(b) - 1) : ~(b[k] = "_" /\ b[k + 1] = "_")

IntOf(s) == Signed(Strip(s), DigitsVal(DropUnderscores(Unsigned(Strip(s)))))

\* int(Decimal) truncates toward zero
Trunc(v) == IF v.i < 0 THEN -((-v.i) \div Pow10(v.e)) ELSE v.i \div Pow10(v.e)

\* IntField.parse_value: int(value), invalid on ValueError and TypeError
IntField_parse_value(value) ==
    CASE value.t \in {"int", "bool"} -> Valid(PyInt(value.i))
      [] value.t = "dec" -> Valid(PyInt(Trunc(value)))
      [] value.t = "str" -> IF IntLiteral(value.s) THEN Valid(PyInt(IntOf(value.s))) ELSE Invalid
      [] OTHER -> Invalid

\* decimal.Decimal(str): blanks stripped, underscores dropped, an optional sign,
\* digits with at most one point and at least one digit
DecLiteral(s) ==
    LET b == Unsigned(DropUnderscores(Strip(s)))
        parts == Split(b, ".")
    IN /\ \A k \in 1..Len(b) : b[k] \in Digits \cup {"."}
       /\ Len(parts) <= 2
       /\ \E k \in 1..Len(b) : b[k] \in Digits

DecOf(s) ==
    LET u == DropUnderscores(Strip(s))
        parts == Split(Unsigned(u), ".")
        frac == IF Len(parts) = 2 THEN parts[2] ELSE <<>>
    IN PyDec(Signed(u, DigitsVal(parts[1] \o frac)), Len(frac))

\* DecimalField.parse_value: decimal.Decimal(value), invalid on ValueError,
\* TypeError and decimal.InvalidOperation
DecimalField_parse_value(value) ==
    CASE value.t \in {"int", "bool"} -> Valid(PyDec(value.i, 0))
      [] value.t = "dec" -> Valid(value)
      [] value.t = "str" /\ OverValueChars(value.s) ->
            IF DecLiteral(value.s) THEN Valid(DecOf(value.s)) ELSE Invalid
      [] value.t \in {"none", "map", "date", "datetime"} -> Invalid

S_true == {<<"t", "r", "u", "e">>, <<"1">>, <<"y", "e", "s">>, <<"o", "n">>}
S_false == {<<"f", "a", "l", "s", "e">>, <<"0">>, <<"n", "o">>, <<"o", "f", "f">>}

\* BooleanField.parse_value
BooleanField_parse_value(value) ==
    CASE value.t = "bool" -> Valid(value)
      [] value.t = "str" /\ Lower(value.s) \in S_true -> Valid(PyBool(TRUE))
      [] value.t = "str" /\ Lower(value.s) \in S_false -> Valid(PyBool(FALSE))
      [] OTHER -> Invalid

\* The directives of time.strptime as the regular expressions of _strptime.py
Re_Y(s) == Len(s) = 4 /\ IsDigits(s)
Re_m(s) == IsDigits(s) /\ Len(s) <= 2 /\ DigitsVal(s) \in 1..12
Re_d(s) ==
    \/ IsDigits(s) /\ Len(s) <= 2 /\ DigitsVal(s) \in 1..31
    \/ Len(s) = 2 /\ s[1] = " " /\ s[2] \in Digits \ {"0"}
Re_H(s) == IsDigits(s) /\ Len(s) <= 2 /\ DigitsVal(s) \in 0..23
Re_M(s) == IsDigits(s) /\ Len(s) <= 2 /\ DigitsVal(s) \in 0..59
Re_S(s) == IsDigits(s) /\ Len(s) <= 2 /\ DigitsVal(s) \in 0..61

IsLeap(y) == y % 4 = 0 /\ (y % 100 # 0 \/ y % 400 = 0)

DaysIn(y, mo) ==
    CASE mo \in {4, 6, 9, 11} -> 30
      [] mo = 2 -> IF IsLeap(y) THEN 29 ELSE 28
      [] OTHER -> 31

\* datetime.datetime.strptime(s, "%Y-%m-%d") succeeds
DateLiteral(s) ==
    LET parts == Split(s, "-")
    IN /\ Len(parts) = 3
       /\ Re_Y(parts[1]) /\ Re_m(parts[2]) /\ Re_d(parts[3])
       /\ DigitsVal(parts[1]) >= 1
       /\ DigitsVal(Strip(parts[3])) <= DaysIn(DigitsVal(parts[1]), DigitsVal(parts[2]))

DateOf(s) ==
    LET parts == Split(s, "-")
    IN DigitsVal(parts[1]) * 10000 + DigitsVal(parts[2]) * 100 + DigitsVal(Strip(parts[3]))

\* DateField.parse_value: a date (or datetime) passes through, a str goes to
\* strptime, anything else is a TypeError inside strptime
DateField_parse_value(value) ==
    CASE value.t \in {"date", "datetime"} -> Valid(value)
      [] value.t = "str" ->
            IF DateLiteral(value.s) THEN Valid(PyDate(DateOf(value.s))) ELSE Invalid
      [] OTHER -> Invalid

\* datetime.datetime.strptime(s, "%Y-%m-%dT%H:%M:%S") succeeds (the T is matched
\* ignoring case; second 60 and 61 match the directive and datetime rejects them)
DateTimeLiteral(s) ==
    LET halves == Split([k \in 1..Len(s) |-> IF s[k] = "t" THEN "T" ELSE s[k]], "T")
        hms == Split(halves[2], ":")
    IN /\ Len(halves) = 2
       /\ DateLiteral(halves[1])
       /\ Len(hms) = 3
       /\ Re_H(hms[1]) /\ Re_M(hms[2]) /\ Re_S(hms[3])
       /\ DigitsVal(hms[3]) <= 59

DateTimeOf(s) ==
    LET halves == Split([k \in 1..Len(s) |-> IF s[k] = "t" THEN "T" ELSE s[k]], "T")
        hms == Split(halves[2], ":")
    IN PyDateTime(DateOf(halves[1]),
                  DigitsVal(hms[1]) * 3600 + DigitsVal(hms[2]) * 60 + DigitsVal(hms[3]))

\* DateTimeField.parse_value
DateTimeField_parse_value(value) ==
    CASE value.t = "datetime" -> Valid(value)
      [] value.t = "str" ->
            IF DateTimeLiteral(value.s) THEN Valid(DateTimeOf(value.s)) ELSE Invalid
      [] OTHER -> Invalid

\* field.parse_value(value) by the class of the field; FilterField and StrField
\* return the value as it is
parse_value(kind, value) ==
    CASE kind = "IntField" -> IntField_parse_value(value)
      [] kind = "DecimalField" -> DecimalField_parse_value(value)
      [] kind = "BooleanField" -> BooleanField_parse_value(value)
      [] kind = "DateField" -> DateField_parse_value(value)
      [] kind = "DateTimeField" -> DateTimeField_parse_value(value)
      [] OTHER -> Valid(value)


(***************************************************************************)
(* backend.py: IterableBackend                                              *)
(***************************************************************************)

\* The outcome of an expression: its value, or the exception it raised
Got(v) == [err |-> "none", value |-> v]
Failed(x) == [err |-> x, value |-> PyNone]

RECURSIVE Subscript(_, _)
\* item[k1][k2]...: KeyError on a dict without the key, TypeError on a value
\* that is not a dict (a str takes no str index, the other values no index)
Subscript(item, ks) ==
    IF ks = <<>> THEN Got(item)
    ELSE IF item.t # "map" THEN Failed("TypeError")
    ELSE IF Head(ks) \notin DOMAIN item.m THEN Failed("KeyError")
    ELSE Subscript(item.m[Head(ks)], Tail(ks))

\* IterableBackend._get_nested_value
get_nested_value(item, key) == Subscript(item, Split(key, "."))

\* Mutant of match_item: a record whose key does not resolve, or whose value the
\* operator cannot compare, is excluded
match_item_excludes(item, key, value, lookup_expr) ==
    LET item_value == get_nested_value(item, key)
        res == LOOKUP_EXPR_OPERATOR_MAP(lookup_expr, item_value.value, value)
    IN IF item_value.err \in {"KeyError", "TypeError"} THEN FALSE
       ELSE IF res.err \in {"KeyError", "TypeError"} THEN FALSE
       ELSE res.val

\* IterableBackend._match_item: the truth value handed to filter()
match_item(item, key, value, lookup_expr) ==
    LET item_value == get_nested_value(item, key)
        res == LOOKUP_EXPR_OPERATOR_MAP(lookup_expr, item_value.value, value)
    IN IF item_value.err \in {"KeyError", "TypeError"} THEN TRUE
       ELSE IF res.err \in {"KeyError", "TypeError"} THEN TRUE
       ELSE res.val

\* Mutant of IterableBackend_filter: the matching records, last one first
IterableBackend_filter_reversed(items, key, value, lookup_expr) ==
    Reverse(SelectSeq(items, LAMBDA item : match_item(item, key, value, lookup_expr)))

\* Mutant of IterableBackend_filter: the last matching record is lost
IterableBackend_filter_drops_last(items, key, value, lookup_expr) ==
    LET kept == SelectSeq(items, LAMBDA item : match_item(item, key, value, lookup_expr))
    IN SubSeq(kept, 1, Len(kept) - 1)

\* IterableBackend.filter on a list
IterableBackend_filter(items, key, value, lookup_expr) ==
    SelectSeq(items, LAMBDA item : match_item(item, key, value, lookup_expr))

\* Whether sorted(items, key=...) raises: a key function that raises (KeyError,
\* TypeError), or two key values that < does not order
SortFails(items, key) ==
    \/ \E k \in 1..Len(items) : get_nested_value(items[k], key).err # "none"
    \/ \E k, j \in 1..Len(items) :
          k # j /\ ~Comparable(get_nested_value(items[k], key).value,
                               get_nested_value(items[j], key).value)

RECURSIVE Sorted(_, _, _)
\* sorted(items, key=lambda x: get_nested_value(x, key), reverse=is_reverse) when
\* it does not raise: the stable sort, equal keys keeping their input order in
\* both directions
Sorted(items, key, is_reverse) ==
    IF items = <<>> THEN <<>>
    ELSE LET n == Len(items)
             x == items[n]
             kx == get_nested_value(x, key).value
             head == Sorted(SubSeq(items, 1, n - 1), key, is_reverse)
             \* x goes before the first element that must follow it
             After(y) == LET c == Cmp3(kx, get_nested_value(y, key).value)
                         IN IF is_reverse THEN c > 0 ELSE c < 0
             pos == IF \E k \in 1..Len(head) : After(head[k])
                    THEN CHOOSE k \in 1..Len(head) :
                             After(head[k]) /\ \A h \in 1..(k - 1) : ~After(head[h])
                    ELSE Len(head) + 1
         IN SubSeq(head, 1, pos - 1) \o <<x>> \o SubSeq(head, pos, Len(head))

RECURSIVE IterableBackend_order_first_key_first(_, _)
\* Mutant of IterableBackend_order: the sorts run from the first pair to the
\* last
IterableBackend_order_first_key_first(items, ordering) ==
    IF ordering = <<>> THEN items
    ELSE LET o == ordering[1]
         IN IF SortFails(items, o.key) THEN items
            ELSE IterableBackend_order_first_key_first(Sorted(items, o.key, o.is_reverse),
                                                       Tail(ordering))

RECURSIVE IterableBackend_order(_, _)
\* IterableBackend.order(data, ordering) of lumi_filter/backend.py: one sort per
\* (key, is_reverse) pair, the last pair first; the first sort that raises ends
\* the loop and `finally: return data` returns the data sorted so far
IterableBackend_order(items, ordering) ==
    IF ordering = <<>> THEN items
    ELSE LET o == ordering[Len(ordering)]
         IN IF SortFails(items, o.key) THEN items
            ELSE IterableBackend_order(Sorted(items, o.key, o.is_reverse),
                                       SubSeq(ordering, 1, Len(ordering) - 1))

\* Mutant of IterableBackend_order_key: a sort that raises leaves no records
IterableBackend_order_key_losing(items, key, is_negative) ==
    IF SortFails(items, key) THEN <<>> ELSE Sorted(items, key, is_negative)

\* Mutant of IterableBackend_order_key: reverse=is_negative is not passed on
IterableBackend_order_key_ascending(items, key, is_negative) ==
    IF SortFails(items, key) THEN items ELSE Sorted(items, key, FALSE)

\* IterableBackend.order(data, key, is_negative) of src/lumi_filter/backend.py:
\* one sort, and the unsorted data when it raises
IterableBackend_order_key(items, key, is_negative) ==
    IF SortFails(items, key) THEN items ELSE Sorted(items, key, is_negative)


(***************************************************************************)
(* backend.py: PeeweeBackend.order                                          *)
(***************************************************************************)

\* The nodes a query selects or orders by: a peewee.Field with its column
\* name, a peewee.Alias of a field, and a node that is neither (a function call)
FieldNode(column_name) ==
    [node |-> "Field", column_name |-> column_name, alias_name |-> <<>>]
AliasNode(column_name, alias_name) ==
    [node |-> "Alias", column_name |-> column_name, alias_name |-> alias_name]
OtherNode == [node |-> "Other", column_name |-> <<>>, alias_name |-> <<>>]

\* A peewee.ModelSelect: its selected columns and its ORDER BY list
QueryData(selected_columns, order_by) ==
    [kind |-> "query", items |-> <<>>, selected_columns |-> selected_columns,
     order_by |-> order_by]

\* field.asc(), field.desc() and peewee.SQL(f"{field_name} {direction}")
Ordered(name, is_negative) ==
    [name |-> name, direction |-> IF is_negative THEN "DESC" ELSE "ASC"]

\* PeeweeBackend.order(query, ordering) of lumi_filter/backend.py: one
\* directive per (field, is_negative) pair, and query.order_by of them, which
\* replaces the ORDER BY list of the query
PeeweeBackend_order(query, ordering) ==
    [query EXCEPT !.order_by =
        [k \in 1..Len(ordering) |-> Ordered(ordering[k].field.column_name,
                                            ordering[k].is_negative)]]

\* PeeweeBackend.get_node_name
get_node_name(node) ==
    IF node.node = "Alias" THEN node.alias_name
    ELSE IF node.node = "Field" THEN node.column_name
    ELSE <<>>

\* PeeweeBackend.order(query, field_name, is_negative) of
\* src/lumi_filter/backend.py: the directive when a selected column has the
\* name, the query itself otherwise
PeeweeBackend_order_key(query, field_name, is_negative) ==
    IF \E k \in 1..Len(query.selected_columns) :
          field_name = get_node_name(query.selected_columns[k])
    THEN [query EXCEPT !.order_by = <<Ordered(field_name, is_negative)>>]
    ELSE query


(***************************************************************************)
(* util.py: ClassHierarchyMapping                                           *)
(***************************************************************************)

\* Classes: object, A(object), B(A), C(A), D(B, C), and the peewee field
\* classes and Python types the maps of map.py name, each a child of object
\* but bool, a child of int
K_object == <<"o", "b", "j", "e", "c", "t">>
K_A == <<"A">>
K_B == <<"B">>
K_C == <<"C">>
K_D == <<"D">>
K_int == <<"i", "n", "t">>
K_bool == <<"b", "o", "o", "l">>
K_str == <<"s", "t", "r">>

\* An object that is not a class
K_instance == <<"i", "n", "s", "t", "a", "n", "c", "e">>

\* cls.__bases__
Bases(c) ==
    CASE c = K_object -> <<>>
      [] c \in {K_B, K_C} -> <<K_A>>
      [] c = K_D -> <<K_B, K_C>>
      [] c = K_bool -> <<K_int>>
      [] OTHER -> <<K_object>>

\* inspect.isclass(key)
isclass(key) == key # K_instance

\* x occurs in the sequence q
InSeq(x, q) == \E k \in 1..Len(q) : q[k] = x

\* The sequence without the occurrences of x
Without(q, x) == SelectSeq(q, LAMBDA y : y # x)

RECURSIVE C3Merge(_)
\* The merge of the C3 linearisation: the first head that is in no tail, then
\* the merge of the lists without it
C3Merge(lists) ==
    LET live == SelectSeq(lists, LAMBDA q : q # <<>>)
        Good(h) == \A k \in 1..Len(live) : ~InSeq(h, Tail(live[k]))
    IN IF live = <<>> THEN <<>>
       ELSE LET pick == CHOOSE k \in 1..Len(live) :
                            /\ Good(Head(live[k]))
                            /\ \A j \in 1..(k - 1) : ~Good(Head(live[j]))
                h == Head(live[pick])
            IN <<h>> \o C3Merge([k \in 1..Len(live) |-> Without(live[k], h)])

RECURSIVE getmro(_)
\* inspect.getmro(cls): cls.__mro__, the C3 linearisation of the class
getmro(c) ==
    <<c>> \o C3Merge([k \in 1..Len(Bases(c)) |-> getmro(Bases(c)[k])] \o <<Bases(c)>>)

\* Mutant of ClassHierarchyMapping_getitem: the plain dict lookup, without the
\* walk over the ancestors
ClassHierarchyMapping_getitem_exact(d, key) ==
    IF ~isclass(key) THEN Failed("TypeError")
    ELSE IF key \in DOMAIN d THEN Got(d[key])
    ELSE Failed("KeyError")

\* ClassHierarchyMapping.__getitem__
ClassHierarchyMapping_getitem(d, key) ==
    IF ~isclass(key) THEN Failed("TypeError")
    ELSE LET mro == getmro(key)
             found == {k \in 1..Len(mro) : mro[k] \in DOMAIN d}
         IN IF found = {} THEN Failed("KeyError")
            ELSE Got(d[mro[CHOOSE k \in found : \A j \in found : k <= j]])

\* ClassHierarchyMapping.__contains__
ClassHierarchyMapping_contains(d, key) ==
    IF ~isclass(key) THEN FALSE
    ELSE \E k \in 1..Len(getmro(key)) : getmro(key)[k] \in DOMAIN d

\* ClassHierarchyMapping.get
ClassHierarchyMapping_get(d, key, default) ==
    IF ClassHierarchyMapping_getitem(d, key).err \in {"KeyError", "TypeError"}
    THEN default
    ELSE ClassHierarchyMapping_getitem(d, key).value

\* ClassHierarchyMapping.__setitem__: the new data, or TypeError
ClassHierarchyMapping_setitem(d, key, value) ==
    IF ~isclass(key) THEN Failed("TypeError")
    ELSE Got([c \in DOMAIN d \cup {key} |-> IF c = key THEN value ELSE d[c]])


(***************************************************************************)
(* model.py: ModelMeta, the model compiler                                  *)
(***************************************************************************)

\* An optional str argument of a field constructor (None when not given)
NoName == [given |-> FALSE, s |-> <<>>]
Name(x) == [given |-> TRUE, s |-> x]

\* field.source: None, a str (a dot path into a record), a peewee.Field (by its
\* column name) or any other object
NoSource == [k |-> "none", p |-> <<>>]
StrSource(x) == [k |-> "str", p |-> x]
PeeweeSource(x) == [k |-> "pw", p |-> x]
OtherSource == [k |-> "other", p |-> <<>>]

\* One `name = SomeField(request_arg_name=..., source=...)` line of a class body
Decl(n, kind, rname, src) ==
    [name |-> n, kind |-> kind, request_arg_name |-> rname, source |-> src]

\* ModelMeta._configure_field: the attribute name where no name or source was given
configure_field(d) ==
    [name |-> d.name,
     kind |-> d.kind,
     request_arg_name |-> IF d.request_arg_name.given THEN d.request_arg_name.s ELSE d.name,
     source |-> IF d.source.k = "none" THEN StrSource(d.name) ELSE d.source]

DunderIn(x) == IsSubstr(<<"_", "_">>, x)

\* Mutant of validate_field_name_raises: no request_arg_name is rejected
validate_field_name_accepts(field) == FALSE

\* ModelMeta._validate_field_name raises ValueError
validate_field_name_raises(field) == DunderIn(field.request_arg_name)

\* ModelMeta._get_source_type
get_source_type(field) ==
    CASE field.source.k = "str" -> "string"
      [] field.source.k = "pw" -> "peewee_field"
      [] OTHER -> "other"

\* Mutant of validate_source_type_consistency_raises: two source types pass
validate_source_type_consistency_lenient(source_types) == Cardinality(source_types) > 2

\* ModelMeta._validate_source_type_consistency raises ValueError
validate_source_type_consistency_raises(source_types) == Cardinality(source_types) > 1

\* The request key of a field and one of its lookups
supported_query_key(field, lookup_expr) ==
    CASE lookup_expr = L_eq -> field.request_arg_name
      [] lookup_expr = L_ne -> field.request_arg_name \o lookup_expr
      [] OTHER -> field.request_arg_name \o <<"_", "_">> \o lookup_expr

\* ModelMeta._get_lookup_expressions: the dict of one field's request keys
get_lookup_expressions(field) ==
    LET keys == {supported_query_key(field, l) : l \in SUPPORTED_LOOKUP_EXPR(field.kind)}
    IN [k \in keys |->
          [field |-> field,
           lookup_expr |-> CHOOSE l \in SUPPORTED_LOOKUP_EXPR(field.kind) :
                               supported_query_key(field, l) = k]]

\* dict.update: the entries of `more` replace those of `d` with the same key
DictUpdate(d, more) ==
    [k \in DOMAIN d \cup DOMAIN more |-> IF k \in DOMAIN more THEN more[k] ELSE d[k]]

RECURSIVE QueryKeyDict(_)
\* supported_query_key_field_dict after the loop over the (configured) fields
QueryKeyDict(fields) ==
    IF fields = <<>> THEN NoMap
    ELSE DictUpdate(QueryKeyDict(SubSeq(fields, 1, Len(fields) - 1)),
                    get_lookup_expressions(fields[Len(fields)]))

\* filter_field_map, stored as __ordering_field_map__
OrderingFieldMap(fields) ==
    [n \in {fields[k].name : k \in 1..Len(fields)} |->
        fields[CHOOSE k \in 1..Len(fields) : fields[k].name = n]]

\* MetaModel(schema=None): no schema
NoSchema == [kind |-> "none", fields |-> <<>>]

\* A class body without an inner Meta class: MetaModel() with its defaults
NoMeta == [schema |-> NoSchema, fields |-> <<>>, extra_field |-> <<>>]

\* A peewee field class that map.py names, and one it does not
K_IntegerField == <<"I", "n", "t", "e", "g", "e", "r", "F", "i", "e", "l", "d">>
K_BooleanField == <<"B", "o", "o", "l", "e", "a", "n", "F", "i", "e", "l", "d">>
K_UUIDField == <<"U", "U", "I", "D", "F", "i", "e", "l", "d">>

\* map.py: pw_filter_mapping and pd_filter_mapping, the entries for the classes
\* above
PEEWEE_FIELD_MAP ==
    [c \in {K_IntegerField, K_BooleanField} |->
        IF c = K_IntegerField THEN "IntField" ELSE "BooleanField"]
PYTHON_TYPE_MAP ==
    [c \in {K_str, K_int, K_bool} |->
        CASE c = K_str -> "StrField" [] c = K_int -> "IntField" [] OTHER -> "BooleanField"]

\* Mutant of DictUnion: the entries of the left dict are kept
DictUnion_left_wins(left, right) ==
    left \o SelectSeq(right, LAMBDA d : \A k \in 1..Len(left) : left[k].name # d.name)

\* left | right and left.update(right) on dicts of fields, as sequences in
\* insertion order: a key of both keeps its place and takes the right value,
\* the new keys follow
DictUnion(left, right) ==
    [k \in 1..Len(left) |->
        IF \E j \in 1..Len(right) : right[j].name = left[k].name
        THEN right[CHOOSE j \in 1..Len(right) : right[j].name = left[k].name]
        ELSE left[k]]
    \o SelectSeq(right, LAMBDA d : \A k \in 1..Len(left) : left[k].name # d.name)

\* `self.fields and name not in self.fields`: the field is left out
NotListed(m, name) ==
    m.fields # <<>> /\ \A k \in 1..Len(m.fields) : m.fields[k] # name

\* MetaModel._process_peewee_fields
process_peewee_fields(m) ==
    LET all == m.schema.fields
        kept == SelectSeq(all, LAMBDA f : ~NotListed(m, f.name))
    IN [k \in 1..Len(kept) |->
           Decl(kept[k].name,
                ClassHierarchyMapping_get(PEEWEE_FIELD_MAP, kept[k].class, "FilterField"),
                NoName, PeeweeSource(kept[k].name))]

\* The filter field of one pydantic field under the key new_key
PydanticDecl(new_key, annotation) ==
    Decl(Replace(new_key, ".", "_"),
         ClassHierarchyMapping_get(PYTHON_TYPE_MAP, annotation, "FilterField"),
         Name(new_key), StrSource(new_key))

\* MetaModel._process_pydantic_fields: the fields of the schema, then those of
\* its nested models from the last to the first (the stack), under dotted
\* keys; the nested models of the schemas here hold no models themselves
process_pydantic_fields(m) ==
    LET top == m.schema.fields
        Level(fs, prefix) ==
            LET plain == SelectSeq(fs, LAMBDA f : ~f.is_model)
                keyed == [k \in 1..Len(plain) |->
                             [key |-> prefix \o plain[k].name,
                              annotation |-> plain[k].class]]
                kept == SelectSeq(keyed, LAMBDA f : ~NotListed(m, f.key))
            IN [k \in 1..Len(kept) |-> PydanticDecl(kept[k].key, kept[k].annotation)]
        models == Reverse(SelectSeq(top, LAMBDA f : f.is_model))
        RECURSIVE Nested(_)
        Nested(k) ==
            IF k > Len(models) THEN <<>>
            ELSE DictUnion(Level(models[k].nested, models[k].name \o <<".">>),
                           Nested(k + 1))
    IN DictUnion(DictUnion(<<>>, Level(top, <<>>)), Nested(1))

\* MetaModel.get_filter_fields
get_filter_fields(m) ==
    LET ret == CASE m.schema.kind = "peewee" -> process_peewee_fields(m)
                 [] m.schema.kind = "pydantic" -> process_pydantic_fields(m)
                 [] OTHER -> <<>>
    IN DictUnion(ret, m.extra_field)

NotCompiled ==
    [status |-> "none", supported_query_key_field_dict |-> NoMap, ordering_field_map |-> NoMap]

\* ModelMeta.__new__ on a class body: the class with its two tables, or the
\* ValueError of one of the two validations
ModelMeta_new(body) ==
    LET fields == [k \in 1..Len(body) |-> configure_field(body[k])]
        source_types == {get_source_type(fields[k]) : k \in 1..Len(fields)}
    IN IF \E k \in 1..Len(fields) : validate_field_name_raises(fields[k])
       THEN [NotCompiled EXCEPT !.status = "ValueError"]
       ELSE IF validate_source_type_consistency_raises(source_types)
       THEN [NotCompiled EXCEPT !.status = "ValueError"]
       ELSE [status |-> "ok",
             supported_query_key_field_dict |-> QueryKeyDict(fields),
             ordering_field_map |-> OrderingFieldMap(fields)]

\* ModelMeta.__new__ on a class body with an inner Meta class: the fields of
\* Meta merged with the attributes of the body, the attributes first in rank
ModelMeta_new_Meta(m, body) ==
    ModelMeta_new(DictUnion(get_filter_fields(m), body))

(***************************************************************************)
(* model.py: Model, the filter/order pipeline                               *)
(***************************************************************************)

\* The data handed to a Model: a list of records, or an object that is neither
\* a peewee.ModelSelect nor an Iterable (a peewee.ModelSelect is a QueryData)
ListData(items) == [kind |-> "list", items |-> items]
OtherData == [kind |-> "other", items |-> <<>>]

\* Model._get_backend_class
get_backend_class(d) ==
    IF d.kind = "query" THEN Got("PeeweeBackend")
    ELSE IF d.kind \in {"list", "iterator"} THEN Got("IterableBackend")
    ELSE Failed("TypeError")

\* What a call returns: the data, the exception raised, and the Backend.filter
\* calls made on the way
Outcome(e, d, c) == [err |-> e, data |-> d, calls |-> c]

\* Mutant of cls_filter_step: the table is indexed without the membership test,
\* so that an unrecognised key raises KeyError
cls_filter_step_KeyError(c, acc, term) ==
    LET table == c.supported_query_key_field_dict
    IN IF term.key \notin DOMAIN table THEN Outcome("KeyError", acc.data, acc.calls)
       ELSE LET field == table[term.key].field
                lookup_expr == table[term.key].lookup_expr
                parsed == parse_value(field.kind, term.value)
                call == [key |-> field.source, value |-> parsed.value,
                         lookup_expr |-> lookup_expr]
            IN IF ~parsed.is_valid THEN acc
               ELSE Outcome("none",
                            ListData(IterableBackend_filter(
                                acc.data.items, field.source.p, parsed.value, lookup_expr)),
                            Append(acc.calls, call))

\* Mutant of cls_filter_step: is_valid is not looked at, the parsed value (None
\* for an invalid one) goes to Backend.filter
cls_filter_step_unchecked(c, acc, term) ==
    LET table == c.supported_query_key_field_dict
    IN IF term.key \notin DOMAIN table THEN acc
       ELSE LET field == table[term.key].field
                lookup_expr == table[term.key].lookup_expr
                parsed == parse_value(field.kind, term.value)
                call == [key |-> field.source, value |-> parsed.value,
                         lookup_expr |-> lookup_expr]
            IN Outcome("none",
                       ListData(IterableBackend_filter(
                           acc.data.items, field.source.p, parsed.value, lookup_expr)),
                       Append(acc.calls, call))

\* One pass of the loop of Model.cls_filter, on the item `term` of request_args
cls_filter_step(c, acc, term) ==
    LET table == c.supported_query_key_field_dict
    IN IF term.key \notin DOMAIN table THEN acc
       ELSE LET field == table[term.key].field
                lookup_expr == table[term.key].lookup_expr
                parsed == parse_value(field.kind, term.value)
                call == [key |-> field.source, value |-> parsed.value,
                         lookup_expr |-> lookup_expr]
            IN IF ~parsed.is_valid THEN acc
               ELSE IF field.source.k # "str" /\ acc.data.items # <<>>
               \* key.split on an object that is no str, at the first record
               THEN Outcome("AttributeError", acc.data, Append(acc.calls, call))
               ELSE Outcome("none",
                            ListData(IterableBackend_filter(
                                acc.data.items, field.source.p, parsed.value, lookup_expr)),
                            Append(acc.calls, call))

RECURSIVE cls_filter_loop(_, _, _, _)
\* The loop of Model.cls_filter over request_args.items(), from item k on; an
\* exception ends it
cls_filter_loop(c, acc, args, k) ==
    IF k > Len(args) \/ acc.err # "none" THEN acc
    ELSE cls_filter_loop(c, cls_filter_step(c, acc, args[k]), args, k + 1)

\* Mutant of cls_filter: `return data` inside the loop, after its first pass
cls_filter_return_in_loop(c, d, args) ==
    IF get_backend_class(d).err # "none"
    THEN Outcome(get_backend_class(d).err, d, <<>>)
    ELSE cls_filter_loop(c, Outcome("none", d, <<>>),
                         IF args = <<>> THEN args ELSE <<args[1]>>, 1)

\* Model.cls_filter
cls_filter(c, d, args) ==
    IF get_backend_class(d).err # "none"
    THEN Outcome(get_backend_class(d).err, d, <<>>)
    ELSE cls_filter_loop(c, Outcome("none", d, <<>>), args, 1)

S_ordering == <<"o", "r", "d", "e", "r", "i", "n", "g">>

\* dict.get(key, default) on the items of a dict
DictGet(args, key, default) ==
    IF \E k \in 1..Len(args) : args[k].key = key
    THEN args[CHOOSE k \in 1..Len(args) : args[k].key = key].value
    ELSE default

\* bool(v)
Truthy(v) ==
    CASE v.t = "none" -> FALSE
      [] v.t = "str" -> v.s # <<>>
      [] v.t = "map" -> DOMAIN v.m # {}
      [] v.t \in {"int", "bool", "dec"} -> v.i # 0
      [] OTHER -> TRUE

\* The two signatures of IterableBackend.order in the repository:
\* order(cls, data, ordering) of lumi_filter/backend.py and
\* order(cls, data, key, is_negative) of src/lumi_filter/backend.py
OrderSignatures == { "ordering", "key" }

\* The call backend.order(data, field.source, is_negative) of Model.cls_order:
\* three arguments are one too many for order(cls, data, ordering), and
\* key.split raises on a source that is no str once there is a record to sort
backend_order_call(signature, items, source, is_negative) ==
    IF signature = "ordering" THEN Failed("TypeError")
    ELSE IF source.k # "str" /\ items # <<>> THEN Failed("AttributeError")
    ELSE Got(IterableBackend_order_key(items, source.p, is_negative))

\* Mutant of cls_order_step: the field map is indexed without .get, so that an
\* unknown name raises KeyError
cls_order_step_KeyError(c, acc, token, signature) ==
    LET is_negative == IsPrefix(<<"-">>, token)
        field_name == IF is_negative THEN Tail(token) ELSE token
        map == c.ordering_field_map
        ordered == backend_order_call(signature, acc.data.items,
                                      map[field_name].source, is_negative)
    IN IF field_name \notin DOMAIN map THEN Outcome("KeyError", acc.data, <<>>)
       ELSE IF ordered.err # "none" THEN Outcome(ordered.err, acc.data, <<>>)
       ELSE Outcome("none", ListData(ordered.value), <<>>)

\* One pass of the loop of Model.cls_order, on one token of the ordering
cls_order_step(c, acc, token, signature) ==
    LET is_negative == IsPrefix(<<"-">>, token)
        field_name == IF is_negative THEN Tail(token) ELSE token
        map == c.ordering_field_map
        ordered == backend_order_call(signature, acc.data.items,
                                      map[field_name].source, is_negative)
    IN IF field_name \notin DOMAIN map THEN acc
       ELSE IF ordered.err # "none" THEN Outcome(ordered.err, acc.data, <<>>)
       ELSE Outcome("none", ListData(ordered.value), <<>>)

RECURSIVE cls_order_loop(_, _, _, _, _)
\* The loop of Model.cls_order over ordering.split(","), from token k on
cls_order_loop(c, acc, tokens, k, signature) ==
    IF k > Len(tokens) \/ acc.err # "none" THEN acc
    ELSE cls_order_loop(c, cls_order_step(c, acc, tokens[k], signature),
                        tokens, k + 1, signature)

\* Model.cls_order: backend.order(data, field.source, is_negative) once per
\* recognised token, in the order of the tokens; `signature` is that of the
\* backend's order
cls_order(c, d, args, signature) ==
    LET ordering == DictGet(args, S_ordering, PyStr(<<>>))
    IN IF ~Truthy(ordering) THEN Outcome("none", d, <<>>)
       ELSE IF get_backend_class(d).err # "none"
       THEN Outcome(get_backend_class(d).err, d, <<>>)
       ELSE IF ordering.t # "str" THEN Outcome("AttributeError", d, <<>>)
       ELSE cls_order_loop(c, Outcome("none", d, <<>>), Split(ordering.s, ","), 1,
                           signature)


(***************************************************************************)
(* shortcut/shortcut.py: compatible_request_args                            *)
(***************************************************************************)

\* key.split("(", 1): the key itself, or the text before and after the first "("
SplitOnce(s, sep) ==
    IF \A k \in 1..Len(s) : s[k] # sep THEN <<s>>
    ELSE LET k == CHOOSE j \in 1..Len(s) :
                     s[j] = sep /\ \A h \in 1..(j - 1) : s[h] # sep
         IN <<SubSeq(s, 1, k - 1), SubSeq(s, k + 1, Len(s))>>

RECURSIVE RStrip(_, _)
\* str.rstrip(c) for one character
RStrip(s, c) ==
    IF s # <<>> /\ s[Len(s)] = c THEN RStrip(SubSeq(s, 1, Len(s) - 1), c) ELSE s

\* d[key] = value on the items of a dict: the value is replaced in place, a
\* new key goes to the end
DictSet(d, key, value) ==
    IF \E k \in 1..Len(d) : d[k].key = key
    THEN [k \in 1..Len(d) |-> IF d[k].key = key THEN [key |-> key, value |-> value]
                                                ELSE d[k]]
    ELSE Append(d, [key |-> key, value |-> value])

\* The dict `map` (operator_map) of compatible_request_args
OperatorMap ==
    [op \in { <<"=", "=">>, <<"!", "=">>, <<">", "=">>, <<"<", "=">>, <<">">>, <<"<">>,
              <<"L", "I", "K", "E">>, <<"I", "L", "I", "K", "E">> } |->
        CASE op = <<"=", "=">> -> <<>>
          [] op = <<"!", "=">> -> <<"!">>
          [] op = <<">", "=">> -> <<"g", "t", "e">>
          [] op = <<"<", "=">> -> <<"l", "t", "e">>
          [] op = <<">">> -> <<"g", "t">>
          [] op = <<"<">> -> <<"l", "t">>
          [] op = <<"L", "I", "K", "E">> -> <<"i", "n">>
          [] OTHER -> <<"i", "i", "n">>]

\* What compatible_request_args leaves: the exception, the dict it returns and
\* the request_args it was given, as they are after the call
Converted(e, ret, args) == [err |-> e, ret |-> ret, args |-> args]

RECURSIVE compatible_request_args_loop(_, _, _, _)
\* The loop of compatible_request_args of lumi_filter/shortcut/shortcut.py
\* over request_args.items(), before the k-th item is fetched: the iterator
\* raises RuntimeError once the dict has another size than at the start
compatible_request_args_loop(args, size, k, ret) ==
    IF Len(args) # size THEN Converted("RuntimeError", ret, args)
    ELSE IF k > Len(args) THEN Converted("none", ret, args)
    ELSE LET parts == SplitOnce(args[k].key, "(")
             value == args[k].value
         IN IF Len(parts) < 2 THEN Converted("ValueError", ret, args)
            ELSE LET key == parts[1]
                     lookup_expr == SubSeq(parts[2], 1, Len(parts[2]) - 1)
                 IN IF lookup_expr \notin DOMAIN OperatorMap
                    THEN Converted("ValueError", ret, args)
                    ELSE LET mapped == OperatorMap[lookup_expr]
                             args2 == DictSet(args, key, PyStr(mapped))
                             suffixed == key \o <<"_", "_">> \o mapped
                             ret2 ==
                                 IF lookup_expr = <<"!">>
                                 THEN Converted("none", DictSet(ret, key \o <<"!">>, value), args2)
                                 ELSE IF lookup_expr = <<>>
                                 THEN Converted("none", DictSet(ret, key, value), args2)
                                 ELSE IF lookup_expr \in {<<"i", "n">>, <<"i", "i", "n">>}
                                 THEN IF value.t # "str"
                                      THEN Converted("TypeError", ret, args2)
                                      ELSE Converted("none",
                                              DictSet(ret, suffixed,
                                                 IF Len(value.s) > 2
                                                 THEN PyStr(SubSeq(value.s, 2, Len(value.s) - 1))
                                                 ELSE value), args2)
                                 ELSE Converted("none", DictSet(ret, suffixed, value), args2)
                         IN IF ret2.err # "none" THEN ret2
                            ELSE compatible_request_args_loop(args2, size, k + 1, ret2.ret)

\* compatible_request_args of lumi_filter/shortcut/shortcut.py
compatible_request_args(args) ==
    compatible_request_args_loop(args, Len(args), 1, <<>>)

\* The value of a LIKE/ILIKE entry in src/lumi_filter/shortcut/shortcut.py:
\* a str of more than two characters loses the quotes around it
Unquoted(value) ==
    IF /\ value.t = "str"
       /\ Len(value.s) > 2
       /\ \/ value.s[1] = "'" /\ value.s[Len(value.s)] = "'"
          \/ value.s[1] = "\"" /\ value.s[Len(value.s)] = "\""
    THEN PyStr(SubSeq(value.s, 2, Len(value.s) - 1))
    ELSE value

RECURSIVE compatible_request_args_try_loop(_, _, _)
\* The loop of compatible_request_args of src/lumi_filter/shortcut/shortcut.py:
\* a key without "(" is copied, the ValueError of an unknown operator is
\* logged and the entry skipped
compatible_request_args_try_loop(args, k, ret) ==
    IF k > Len(args) THEN Converted("none", ret, args)
    ELSE LET key == args[k].key
             value == args[k].value
             parts == SplitOnce(key, "(")
         IN IF Len(parts) < 2
            THEN compatible_request_args_try_loop(args, k + 1, DictSet(ret, key, value))
            ELSE LET field_name == parts[1]
                     operator_expr == RStrip(parts[2], ")")
                 IN IF operator_expr \notin DOMAIN OperatorMap
                    THEN compatible_request_args_try_loop(args, k + 1, ret)
                    ELSE LET internal_operator == OperatorMap[operator_expr]
                             new_key == IF internal_operator = <<"!">>
                                        THEN field_name \o <<"!">>
                                        ELSE IF internal_operator = <<>> THEN field_name
                                        ELSE field_name \o <<"_", "_">> \o internal_operator
                             new_value ==
                                 IF operator_expr \in {<<"L", "I", "K", "E">>,
                                                       <<"I", "L", "I", "K", "E">>}
                                 THEN Unquoted(value) ELSE value
                         IN compatible_request_args_try_loop(args, k + 1,
                                                             DictSet(ret, new_key, new_value))

\* compatible_request_args of src/lumi_filter/shortcut/shortcut.py
compatible_request_args_try(args) == compatible_request_args_try_loop(args, 1, <<>>)


(***************************************************************************)
(* shortcut/shortcut.py: AutoQueryModel                                     *)
(***************************************************************************)

\* A one-shot iterator over records (a generator, iter(records)): `items` is
\* what it has still to yield
IterData(items) == [kind |-> "iterator", items |-> items]

\* type(value) of a leaf of the sample record; type(None) is registered in no
\* mapping and its MRO ends in object
TypeOf(v) ==
    CASE v.t = "int" -> K_int
      [] v.t = "bool" -> K_bool
      [] v.t = "str" -> K_str
      [] OTHER -> K_object

RECURSIVE process_items(_, _, _, _, _)
\* The loop over current_dict.items() from the k-th key on: a dict value is
\* pushed on the stack under its dotted key, any other value becomes
\* attrs[new_key.replace(".", "_")]
process_items(current_dict, key_prefix, keys, k, st) ==
    IF k > Len(keys) THEN st
    ELSE LET new_key == IF key_prefix # <<>> THEN key_prefix \o <<".">> \o keys[k]
                        ELSE keys[k]
             value == current_dict.m[keys[k]]
         IN process_items(current_dict, key_prefix, keys, k + 1,
                IF value.t = "map"
                THEN [st EXCEPT !.stack =
                         Append(st.stack, [dict |-> value, key_prefix |-> new_key])]
                ELSE [st EXCEPT !.attrs =
                         DictUnion(st.attrs, <<PydanticDecl(new_key, TypeOf(value))>>)])

RECURSIVE process_stack(_)
\* `while stack:` with stack.pop(), the last pushed dict first
process_stack(st) ==
    IF st.stack = <<>> THEN st.attrs
    ELSE LET top == st.stack[Len(st.stack)]
             popped == [st EXCEPT !.stack = SubSeq(st.stack, 1, Len(st.stack) - 1)]
         IN process_stack(process_items(top.dict, top.key_prefix,
                                        SortedKeys(DOMAIN top.dict.m), 1, popped))

\* The class body AutoQueryModel derives from the first record of the data
process_iterable_data(sample_item) ==
    process_stack([attrs |-> <<>>, stack |-> <<[dict |-> sample_item, key_prefix |-> <<>>]>>])

\* AutoQueryModel(data, request_args) on data that is no peewee query, run by
\* one caller from start to end: the exception raised, the class body, the
\* dynamic_filter_model class, the data of the instance returned (the object
\* handed in, which list() has exhausted if it is an iterator) and the list
\* that list(data) built
AutoQueryModel_new(d) ==
    LET after == IF d.kind = "iterator" THEN IterData(<<>>) ELSE d
        body == process_iterable_data(d.items[1])
        class == ModelMeta_new(body)
    IN IF d.kind \notin {"list", "iterator"}
       THEN [err |-> "TypeError", attrs |-> <<>>, cls |-> NotCompiled, data |-> d,
             data_list |-> d]
       ELSE IF d.items = <<>>
       THEN [err |-> "ValueError", attrs |-> <<>>, cls |-> NotCompiled, data |-> after,
             data_list |-> ListData(<<>>)]
       ELSE [err |-> IF class.status = "ok" THEN "none" ELSE class.status,
             attrs |-> body, cls |-> class, data |-> after,
             data_list |-> ListData(d.items)]

RECURSIVE cls_order_by_name_loop(_, _, _)
\* The loop of the older Model.cls_order: Backend.order(data, req_field_name,
\* is_negative) on the name in the token itself, no field table consulted
cls_order_by_name_loop(acc, tokens, k) ==
    IF k > Len(tokens) THEN acc
    ELSE LET is_negative == IsPrefix(<<"-">>, tokens[k])
             req_field_name == IF is_negative THEN Tail(tokens[k]) ELSE tokens[k]
         IN cls_order_by_name_loop(
                IF acc.data.kind = "query"
                THEN Outcome("none",
                             PeeweeBackend_order_key(acc.data, req_field_name, is_negative),
                             <<>>)
                ELSE Outcome("none",
                             ListData(IterableBackend_order_key(
                                 acc.data.items, req_field_name, is_negative)),
                             <<>>),
                tokens, k + 1)

\* Model.cls_order of src/lumi_filter/model.py
cls_order_by_name(d, args) ==
    LET ordering == DictGet(args, S_ordering, PyStr(<<>>))
    IN IF get_backend_class(d).err # "none" THEN Outcome("ValueError", d, <<>>)
       ELSE IF ~Truthy(ordering) THEN Outcome("none", d, <<>>)
       ELSE IF ordering.t # "str" THEN Outcome("AttributeError", d, <<>>)
       ELSE cls_order_by_name_loop(Outcome("none", d, <<>>), Split(ordering.s, ","), 1)

(***************************************************************************)
(* The inputs of the checks                                                 *)
(***************************************************************************)

MaxLen == 2        \* records in the data of the filter pipeline
MaxOrderLen == 3   \* records in the data of the ordering and backend checks
MaxArgs == 2       \* items of request_args
MaxSteps == 2      \* operations on one Model instance
MaxFields == 2     \* field declarations in a class body
MaxOrdering == 2   \* (key, is_reverse) pairs handed to IterableBackend.order

S_n == <<"n">>
S_a == <<"a">>
S_b == <<"b">>
S_c == <<"c">>
S_p == <<"p">>
S_u == <<"u">>
S_x == <<"x">>
S_pc == <<"p", ".", "c">>
S_pm == <<"p", ".", "m">>
S_p_c == <<"p", "_", "c">>

\* A record {"n": name, "a": age, "p": {"c": country}}
Rec(n, a, c) ==
    PyDict([k \in {S_n, S_a, S_p} |->
              CASE k = S_n -> PyStr(n)
                [] k = S_a -> a
                [] OTHER -> PyDict([j \in {S_c} |-> PyStr(c)])])

\* The records of the checks: equal names, equal ages, an age that is a str,
\* and a record with neither "a" nor "p"
Records ==
    { Rec(S_b, PyInt(1), S_u),
      Rec(S_b, PyInt(2), S_x),
      Rec(<<"o">>, PyInt(1), S_u),
      Rec(S_u, PyStr(<<"1">>), S_x),
      PyDict([k \in {S_n} |-> PyStr(<<"o", "n">>)]) }

RECURSIVE SeqsUpTo(_, _)
\* The sequences over S of length at most n
SeqsUpTo(S, n) ==
    IF n = 0 THEN {<<>>}
    ELSE LET shorter == SeqsUpTo(S, n - 1)
         IN shorter \cup {Append(q, x) : q \in {r \in shorter : Len(r) = n - 1}, x \in S}

\* The class body of the pipeline checks: a str field, an int field, a field on
\* a nested path (named as the flattening names it) and a field whose path no
\* record holds
FilterModelBody ==
    << Decl(S_n, "StrField", NoName, NoSource),
       Decl(S_a, "IntField", NoName, NoSource),
       Decl(S_p_c, "StrField", Name(S_pc), StrSource(S_pc)),
       Decl(<<"m">>, "StrField", NoName, StrSource(S_pm)) >>

\* Request keys: recognised (with and without a lookup suffix) and unrecognised
RequestKeys ==
    { S_n, S_a \o <<"_", "_">> \o L_gte, S_pc, S_n \o <<"_", "_">> \o L_nin,
      <<"f", "o", "o">> }

\* Request values: a name, a number, and text no record holds
RequestValues == { PyStr(S_b), PyStr(<<"1">>) }

Terms == {[key |-> k, value |-> v] : k \in RequestKeys, v \in RequestValues}

\* dict items: no key twice
DistinctKeys(args) == \A k, j \in 1..Len(args) : k # j => args[k].key # args[j].key

RequestArgs == {args \in SeqsUpTo(Terms, MaxArgs) : DistinctKeys(args)}

NoOp ==
    [op |-> "none", err |-> "none", key |-> <<>>, value |-> PyNone,
     lookup_expr |-> <<>>, ordering |-> <<>>, calls |-> <<>>, signature |-> "none"]

\* No subclass declared yet
NoSub == [attrs |-> <<>>, cls |-> NotCompiled]

\* AutoQueryModel before its first call: neither class attribute is set
NoShared == [data |-> PyNone, request_args |-> PyNone]

\* No call of AutoQueryModel in progress
NoCallers == <<>>

(***************************************************************************)
(* Spec: a Model instance over a list of records, filter() called on it     *)
(***************************************************************************)

Init ==
    /\ attrs = FilterModelBody
    /\ cls = ModelMeta_new(attrs)
    /\ data \in {ListData(q) : q \in SeqsUpTo(Records, MaxLen)} \cup {OtherData}
    /\ request_args \in RequestArgs
    /\ orig = data
    /\ prev = data
    /\ last = NoOp
    /\ steps = 0
    /\ meta = NoMeta
    /\ mapping = NoMap
    /\ sub = NoSub
    /\ shared = NoShared
    /\ callers = NoCallers

\* Mutant of Filter: the keys of the request are popped from the query-key
\* table of the class as they are used
Filter_popping_keys ==
    /\ steps < MaxSteps
    /\ cls.status = "ok"
    /\ LET out == cls_filter(cls, data, request_args)
           table == cls.supported_query_key_field_dict
           used == {request_args[k].key : k \in 1..Len(request_args)}
       IN /\ data' = IF out.err = "none" THEN out.data ELSE data
          /\ last' = [NoOp EXCEPT !.op = "filter", !.err = out.err, !.calls = out.calls]
          /\ cls' = [cls EXCEPT !.supported_query_key_field_dict =
                        [k \in DOMAIN table \ used |-> table[k]]]
    /\ prev' = data
    /\ steps' = steps + 1
    /\ UNCHANGED <<sub, shared, callers, meta, mapping, attrs, request_args, orig>>

\* Model.filter: self.data = cls_filter(self.data, self.request_args); an
\* exception leaves self.data as it was
Filter ==
    /\ steps < MaxSteps
    /\ cls.status = "ok"
    /\ LET out == cls_filter(cls, data, request_args)
       IN /\ data' = IF out.err = "none" THEN out.data ELSE data
          /\ last' = [NoOp EXCEPT !.op = "filter", !.err = out.err, !.calls = out.calls]
    /\ prev' = data
    /\ steps' = steps + 1
    /\ UNCHANGED <<sub, shared, callers, meta, mapping, attrs, cls, request_args, orig>>

Next == Filter

Spec == Init /\ [][Next]_vars


(***************************************************************************)
(* Claims on the filter pipeline, checked under Spec                        *)
(***************************************************************************)

\* The key of the term is a key of the compiled query-key table
Recognised(term) == term.key \in DOMAIN cls.supported_query_key_field_dict

\* parse_value of the term's field reports the term's value invalid
InvalidTerm(term) ==
    /\ Recognised(term)
    /\ ~parse_value(cls.supported_query_key_field_dict[term.key].field.kind,
                    term.value).is_valid

\* The orders in which the items of a dict can be iterated
Orders(args) ==
    {q \in SeqsUpTo({args[k] : k \in 1..Len(args)}, Len(args)) :
        Len(q) = Len(args) /\ DistinctKeys(q)}

\* What filter() leaves in the instance when cls_filter ends with `out`
Left(out) == IF out.err = "none" THEN out.data ELSE prev

\* C1: cls_filter ignores every request key that is not in the query-key table:
\* filter() raises what cls_filter raises on the request without its
\* unrecognised keys (nothing on a list of records) and leaves the same data.
C1_UnrecognisedKeysIgnored ==
    last.op = "filter" =>
        LET known == cls_filter(cls, prev, SelectSeq(request_args, Recognised))
        IN /\ last.err = known.err
           /\ data = Left(known)
           /\ prev.kind = "list" => last.err = "none"

\* An unrecognised key beside a recognised one whose filter removed a record
C1_Witness ==
    /\ last.op = "filter"
    /\ \E k \in 1..Len(request_args) : ~Recognised(request_args[k])
    /\ \E k \in 1..Len(request_args) : Recognised(request_args[k])
    /\ Len(data.items) < Len(prev.items)

\* C2: a term whose value parse_value reports invalid never reaches
\* Backend.filter: no error, the data left is that of the request without the
\* term, and the Backend.filter calls made are those of the other terms.
C2_InvalidValueSkipped ==
    (last.op = "filter" /\ prev.kind = "list") =>
        LET rest == SelectSeq(request_args, LAMBDA t : ~InvalidTerm(t))
            applied == SelectSeq(rest, Recognised)
            out == cls_filter(cls, prev, rest)
        IN /\ last.err = "none"
           /\ data = out.data
           /\ Len(last.calls) = Len(applied)
           /\ \A k \in 1..Len(applied) :
                 LET entry == cls.supported_query_key_field_dict[applied[k].key]
                 IN /\ last.calls[k].key = entry.field.source
                    /\ last.calls[k].lookup_expr = entry.lookup_expr
                    /\ last.calls[k].value =
                           parse_value(entry.field.kind, applied[k].value).value

\* An invalid term beside a valid one whose filter removed a record
C2_Witness ==
    /\ last.op = "filter"
    /\ \E k \in 1..Len(request_args) : InvalidTerm(request_args[k])
    /\ Len(last.calls) = 1
    /\ Len(data.items) < Len(prev.items)

\* C6: the result of cls_filter does not depend on the iteration order of
\* request_args.
C6_ArgOrderIrrelevant ==
    last.op = "filter" =>
        \A q \in Orders(request_args) :
            LET out == cls_filter(cls, prev, q)
            IN out.err = last.err /\ Left(out) = data

\* Two terms, both applied, that leave some but not all of the records
C6_Witness ==
    /\ last.op = "filter"
    /\ Len(last.calls) = 2
    /\ Cardinality(Orders(request_args)) = 2
    /\ data.items # <<>>
    /\ Len(data.items) < Len(prev.items)

\* C7: filtering is idempotent: filtering the filtered data by the same request
\* gives the filtered data, and a second filter() leaves the data of the first.
C7_FilterIdempotent ==
    (last.op = "filter" /\ last.err = "none") =>
        /\ cls_filter(cls, data, request_args).data = data
        /\ steps >= 2 => data = prev

\* A second filter() after a first one that removed some of the records
C7_Witness ==
    /\ last.op = "filter"
    /\ steps = 2
    /\ data.items # <<>>
    /\ Len(data.items) < Len(orig.items)


(***************************************************************************)
(* SpecBackend: one call of IterableBackend on a list of records            *)
(***************************************************************************)

\* Dot paths: held by the records, held by no record, and through a str
BackendKeys == { S_n, S_a, S_pc, S_pm, <<"n", ".", "x">> }

\* Filter values: a str and an int
BackendValues == { PyStr(S_b), PyInt(1) }

\* The lookups of the operator map, and one the fields support that it lacks
BackendLookups == IterableLookups \cup { L_nin }

OrderKeys == { S_n, S_a, S_pc }

\* The (key, is_reverse) tuples of an ordering
OrderPairs == {[key |-> k, is_reverse |-> b] : k \in OrderKeys, b \in BOOLEAN}

InitBackend ==
    /\ attrs = <<>>
    /\ cls = NotCompiled
    /\ data \in {ListData(q) : q \in SeqsUpTo(Records, MaxOrderLen)}
    /\ request_args = <<>>
    /\ orig = data
    /\ prev = data
    /\ last = NoOp
    /\ steps = 0
    /\ meta = NoMeta
    /\ mapping = NoMap
    /\ sub = NoSub
    /\ shared = NoShared
    /\ callers = NoCallers

\* data = IterableBackend.filter(data, key, value, lookup_expr)
BackendFilter ==
    /\ last.op = "none"
    /\ \E key \in BackendKeys, value \in BackendValues, lookup_expr \in BackendLookups :
          /\ data' = ListData(IterableBackend_filter(data.items, key, value, lookup_expr))
          /\ last' = [NoOp EXCEPT !.op = "backend_filter", !.key = key,
                                  !.value = value, !.lookup_expr = lookup_expr]
    /\ prev' = data
    /\ steps' = steps + 1
    /\ UNCHANGED <<sub, shared, callers, meta, mapping, attrs, cls, request_args, orig>>

\* data = IterableBackend.order(data, ordering), ordering a list of tuples
BackendOrder ==
    /\ last.op = "none"
    /\ \E ordering \in SeqsUpTo(OrderPairs, MaxOrdering) :
          /\ data' = ListData(IterableBackend_order(data.items, ordering))
          /\ last' = [NoOp EXCEPT !.op = "backend_order", !.ordering = ordering]
    /\ prev' = data
    /\ steps' = steps + 1
    /\ UNCHANGED <<sub, shared, callers, meta, mapping, attrs, cls, request_args, orig>>

\* data = IterableBackend.order(data, key, is_negative)
BackendOrderKey ==
    /\ last.op = "none"
    /\ \E o \in OrderPairs :
          /\ data' = ListData(IterableBackend_order_key(data.items, o.key, o.is_reverse))
          /\ last' = [NoOp EXCEPT !.op = "backend_order_key", !.ordering = <<o>>]
    /\ prev' = data
    /\ steps' = steps + 1
    /\ UNCHANGED <<sub, shared, callers, meta, mapping, attrs, cls, request_args, orig>>

NextBackend == BackendFilter \/ BackendOrder \/ BackendOrderKey

SpecBackend == InitBackend /\ [][NextBackend]_vars

RECURSIVE Subsequence(_, _)
\* a is b with some of its elements left out
Subsequence(a, b) ==
    IF a = <<>> THEN TRUE
    ELSE IF b = <<>> THEN FALSE
    ELSE IF Head(a) = Head(b) THEN Subsequence(Tail(a), Tail(b))
    ELSE Subsequence(a, Tail(b))

\* The key of the last filter does not resolve in the record
Unresolved(item) == get_nested_value(item, last.key).err \in {"KeyError", "TypeError"}

\* The operator of the last filter cannot compare the record's value with the
\* filter value
Mismatch(item) ==
    /\ ~Unresolved(item)
    /\ LOOKUP_EXPR_OPERATOR_MAP(last.lookup_expr,
                                get_nested_value(item, last.key).value,
                                last.value).err = "TypeError"

StrictlyOrderable(items, key) ==
    /\ ~SortFails(items, key)
    /\ \A k, j \in 1..Len(items) :
          k # j => Cmp3(get_nested_value(items[k], key).value,
                        get_nested_value(items[j], key).value) # 0

\* The last call ordered by one key
SingleKey == last.op \in {"backend_order", "backend_order_key"} /\ Len(last.ordering) = 1

\* Ordering the input of the last call by the same key in the other direction
OtherDirection ==
    LET o == last.ordering[1]
    IN IF last.op = "backend_order"
       THEN IterableBackend_order(prev.items,
                                  <<[key |-> o.key, is_reverse |-> ~o.is_reverse]>>)
       ELSE IterableBackend_order_key(prev.items, o.key, ~o.is_reverse)

\* C5 as stated: for every list and every key K, ordering by K and reversing
\* the result gives the list that ordering by -K gives.
C5_ReverseOfAscendingIsDescending ==
    SingleKey =>
        IF last.ordering[1].is_reverse
        THEN data.items = Reverse(OtherDirection)
        ELSE Reverse(data.items) = OtherDirection

\* C5, amended: the same, for the lists in which every record holds K and no
\* two records have equal or incomparable values of K.
C5_ReverseOfAscendingIsDescending_Distinct ==
    (SingleKey /\ StrictlyOrderable(prev.items, last.ordering[1].key)) =>
        IF last.ordering[1].is_reverse
        THEN data.items = Reverse(OtherDirection)
        ELSE Reverse(data.items) = OtherDirection

\* A descending order_key call that moved the three records of its input
C5_Witness ==
    /\ last.op = "backend_order_key"
    /\ last.ordering[1].is_reverse
    /\ StrictlyOrderable(prev.items, last.ordering[1].key)
    /\ Len(prev.items) = 3
    /\ data # prev
    /\ data.items # Reverse(prev.items)

\* C8: the list IterableBackend.filter returns is a subsequence of its input,
\* for every key, value and lookup.
C8_FilterReturnsSubsequence ==
    last.op = "backend_filter" => Subsequence(data.items, prev.items)

\* A filter that removed the record between two different records it kept
C8_Witness ==
    /\ last.op = "backend_filter"
    /\ Len(prev.items) = 3
    /\ data.items = <<prev.items[1], prev.items[3]>>
    /\ Cardinality({prev.items[k] : k \in 1..3}) = 3


(***************************************************************************)
(* SpecOrder: a Model instance over a list of records, order() called on it *)
(***************************************************************************)

\* The values of the `ordering` request key: one and two tokens, ascending and
\* descending, an undeclared name, a field whose path no record holds
OrderingTexts ==
    { S_a \o <<",", "-">> \o S_p_c,
      S_p_c \o <<",", "-">> \o S_a,
      S_a \o <<",", "-">> \o S_n,
      S_n \o <<",", "-">> \o S_p_c,
      <<"f", "o", "o", ",", "-">> \o S_n,
      <<"f", "o", "o">>,
      S_n,
      <<"-">> \o S_a,
      <<"m">>,
      <<>> }

OrderingArgs == {<<>>} \cup {<<[key |-> S_ordering, value |-> PyStr(o)]>> : o \in OrderingTexts}

InitOrder ==
    /\ attrs = FilterModelBody
    /\ cls = ModelMeta_new(attrs)
    /\ data \in {ListData(q) : q \in SeqsUpTo(Records, MaxOrderLen)} \cup {OtherData}
    /\ request_args \in OrderingArgs
    /\ orig = data
    /\ prev = data
    /\ last = NoOp
    /\ steps = 0
    /\ meta = NoMeta
    /\ mapping = NoMap
    /\ sub = NoSub
    /\ shared = NoShared
    /\ callers = NoCallers

\* Model.order: self.data = cls_order(self.data, self.request_args), with
\* either backend of the repository; an exception leaves self.data as it was
Order ==
    /\ steps < MaxSteps
    /\ cls.status = "ok"
    /\ \E signature \in OrderSignatures :
          LET out == cls_order(cls, data, request_args, signature)
          IN /\ data' = IF out.err = "none" THEN out.data ELSE data
             /\ last' = [NoOp EXCEPT !.op = "order", !.err = out.err,
                                     !.signature = signature]
    /\ prev' = data
    /\ steps' = steps + 1
    /\ UNCHANGED <<sub, shared, callers, meta, mapping, attrs, cls, request_args, orig>>

NextOrder == Order

SpecOrder == InitOrder /\ [][NextOrder]_vars

\* The tokens of the ordering of the request
OrderingTokens == Split(DictGet(request_args, S_ordering, PyStr(<<>>)).s, ",")

\* The ordering of the request is "A,-B", A and B declared fields whose paths
\* every record of `items` holds, with values that < orders
AscThenDesc(items) ==
    /\ Len(OrderingTokens) = 2
    /\ ~IsPrefix(<<"-">>, OrderingTokens[1])
    /\ IsPrefix(<<"-">>, OrderingTokens[2])
    /\ OrderingTokens[1] \in DOMAIN cls.ordering_field_map
    /\ Tail(OrderingTokens[2]) \in DOMAIN cls.ordering_field_map
    /\ ~SortFails(items, cls.ordering_field_map[OrderingTokens[1]].source.p)
    /\ ~SortFails(items, cls.ordering_field_map[Tail(OrderingTokens[2])].source.p)

\* The value of the k-th token's field in a record
TokenValue(item, k) ==
    LET name == IF k = 1 THEN OrderingTokens[1] ELSE Tail(OrderingTokens[2])
    IN get_nested_value(item, cls.ordering_field_map[name].source.p).value

\* C4: order() with ordering "A,-B" raises nothing and leaves the records in
\* ascending order of A, records with equal A in non-increasing order of B
\* (stated for the backend whose order takes the call of cls_order; with the
\* other one the call raises TypeError).
C4_FirstKeyHasPriority ==
    (/\ last.op = "order"
     /\ last.signature = "key"
     /\ prev.kind = "list"
     /\ AscThenDesc(prev.items)) =>
        /\ last.err = "none"
        /\ \A k, j \in 1..Len(data.items) :
            k < j =>
                 /\ Cmp3(TokenValue(data.items[k], 1), TokenValue(data.items[j], 1)) <= 0
                 /\ Cmp3(TokenValue(data.items[k], 1), TokenValue(data.items[j], 1)) = 0
                        => Cmp3(TokenValue(data.items[k], 2), TokenValue(data.items[j], 2)) >= 0


(***************************************************************************)
(* SpecCompile: a class body written field by field, then compiled          *)
(***************************************************************************)

\* Attribute names, one of them with the lookup separator inside
FieldNames == { S_a, S_b, S_c, <<"c", "_", "_", "d">> }

\* request_arg_name arguments: none, one two fields may share, one that is the
\* NotEq key of field a, one with the lookup separator
RequestArgNames == { NoName, Name(S_x), Name(<<"a", "!">>), Name(<<"x", "_", "_", "i", "n">>) }

Sources == { NoSource, StrSource(S_pc), PeeweeSource(S_a), OtherSource }

Decls ==
    {Decl(n, kind, rname, src) :
        n \in FieldNames, kind \in {"IntField", "BooleanField"},
        rname \in RequestArgNames, src \in Sources}

InitCompile ==
    /\ attrs = <<>>
    /\ cls = NotCompiled
    /\ data = ListData(<<>>)
    /\ request_args = <<>>
    /\ orig = data
    /\ prev = data
    /\ last = NoOp
    /\ steps = 0
    /\ meta = NoMeta
    /\ mapping = NoMap
    /\ sub = NoSub
    /\ shared = NoShared
    /\ callers = NoCallers

\* One more `name = SomeField(...)` line in the class body
Declare ==
    /\ cls.status = "none"
    /\ Len(attrs) < MaxFields
    /\ \E d \in Decls :
          /\ \A k \in 1..Len(attrs) : attrs[k].name # d.name
          /\ attrs' = Append(attrs, d)
    /\ UNCHANGED <<sub, shared, callers, meta, mapping, cls, data, request_args, orig, prev, last, steps>>

\* The end of the class statement: ModelMeta.__new__ runs on the body
Compile ==
    /\ cls.status = "none"
    /\ cls' = ModelMeta_new(attrs)
    /\ UNCHANGED <<sub, shared, callers, meta, mapping, attrs, data, request_args, orig, prev, last, steps>>

\* The records the compiled class is used on
CompileData ==
    { ListData(<< PyDict([k \in {S_a, S_b} |-> IF k = S_a THEN PyBool(TRUE) ELSE PyInt(1)]),
                  PyDict([k \in {S_a, S_b} |-> IF k = S_a THEN PyBool(FALSE) ELSE PyInt(2)]) >>) }

\* One-term requests: a name, bare and with the NotEq and gt suffixes
CompileArgs ==
    {<<[key |-> n \o suffix, value |-> PyStr(<<"1">>)]>> :
        n \in {S_a, S_b, S_x},
        suffix \in {<<>>, <<"!">>, <<"_", "_">> \o L_gt}}

\* M(d, args).filter() on the compiled class M
FilterCompiled ==
    /\ cls.status = "ok"
    /\ last.op = "none"
    /\ \E d \in CompileData, args \in CompileArgs :
          LET out == cls_filter(cls, d, args)
          IN /\ data' = IF out.err = "none" THEN out.data ELSE d
             /\ prev' = d
             /\ orig' = d
             /\ request_args' = args
             /\ last' = [NoOp EXCEPT !.op = "filter", !.err = out.err,
                                     !.calls = out.calls]
    /\ steps' = steps + 1
    /\ UNCHANGED <<sub, shared, callers, meta, mapping, attrs, cls>>

NextCompile == Declare \/ Compile \/ FilterCompiled

SpecCompile == InitCompile /\ [][NextCompile]_vars

\* The fields of the class body as __new__ configures them
ConfiguredFields == [k \in 1..Len(attrs) |-> configure_field(attrs[k])]

\* C9: in a compiled model no two distinct (field, lookup) pairs have the same
\* request key, and every pair's key leads to its own field and lookup in the
\* query-key table.
C9_NoKeyCollisions ==
    cls.status = "ok" =>
        \A k, j \in 1..Len(attrs) :
            \A l \in SUPPORTED_LOOKUP_EXPR(ConfiguredFields[k].kind),
               m \in SUPPORTED_LOOKUP_EXPR(ConfiguredFields[j].kind) :
                LET key == supported_query_key(ConfiguredFields[k], l)
                IN /\ cls.supported_query_key_field_dict[key].field = ConfiguredFields[k]
                   /\ cls.supported_query_key_field_dict[key].lookup_expr = l
                   /\ (k # j \/ l # m) =>
                          key # supported_query_key(ConfiguredFields[j], m)

KeyOfName(key, name, kind) ==
    \E l \in SUPPORTED_LOOKUP_EXPR(kind) :
        key = CASE l = L_eq -> name
                [] l = L_ne -> name \o <<"!">>
                [] OTHER -> name \o <<"_", "_">> \o l

\* C11: a class body with a field whose request_arg_name (given, or the
\* attribute name) contains "__" raises ValueError and creates no class; in a
\* compiled model the field-name part of every key of the table is free of "__".
C11_DunderNameRejected ==
    cls.status # "none" =>
        /\ (\E k \in 1..Len(attrs) :
               IsSubstr(<<"_", "_">>,
                        IF attrs[k].request_arg_name.given
                        THEN attrs[k].request_arg_name.s ELSE attrs[k].name))
           => /\ cls.status = "ValueError"
              /\ cls.supported_query_key_field_dict = NoMap
              /\ cls.ordering_field_map = NoMap
        /\ cls.status = "ok" =>
               \A key \in DOMAIN cls.supported_query_key_field_dict :
                   LET f == cls.supported_query_key_field_dict[key].field
                   IN /\ ~IsSubstr(<<"_", "_">>, f.request_arg_name)
                      /\ KeyOfName(key, f.request_arg_name, f.kind)

\* A compiled body whose fields have one source kind, one of them named with
\* "__" by its attribute name and another by its request_arg_name argument
C11_Witness ==
    /\ cls.status = "ValueError"
    /\ \E k, j \in 1..Len(attrs) :
          /\ ~attrs[k].request_arg_name.given
          /\ IsSubstr(<<"_", "_">>, attrs[k].name)
          /\ attrs[j].request_arg_name.given
          /\ IsSubstr(<<"_", "_">>, attrs[j].request_arg_name.s)
    /\ Cardinality({ConfiguredFields[k].source.k : k \in 1..Len(attrs)}) = 1


\* The request key of the grammar: name for Eq, name! for NotEq, name__lookup
\* for the other lookups
GrammarKey(name, l) ==
    CASE l = L_eq -> name
      [] l = L_ne -> name \o <<"!">>
      [] OTHER -> name \o <<"_", "_">> \o l

\* C12: the query-key table of a compiled model holds, for every field f and
\* every lookup l that f supports, the key of the grammar mapped to
\* {field: f, lookup: l}, and holds no other key.
C12_TableFollowsGrammar ==
    cls.status = "ok" =>
        /\ DOMAIN cls.supported_query_key_field_dict =
               UNION {{GrammarKey(ConfiguredFields[k].request_arg_name, l) :
                          l \in SUPPORTED_LOOKUP_EXPR(ConfiguredFields[k].kind)} :
                      k \in 1..Len(attrs)}
        /\ \A k \in 1..Len(attrs) :
              \A l \in SUPPORTED_LOOKUP_EXPR(ConfiguredFields[k].kind) :
                  cls.supported_query_key_field_dict[
                      GrammarKey(ConfiguredFields[k].request_arg_name, l)]
                      = [field |-> ConfiguredFields[k], lookup_expr |-> l]

\* The part of C12 that holds: the keys of the table are those of the grammar,
\* and each leads to a field and a lookup that build it.
C12_KeysOfGrammar ==
    cls.status = "ok" =>
        /\ DOMAIN cls.supported_query_key_field_dict =
               UNION {{GrammarKey(ConfiguredFields[k].request_arg_name, l) :
                          l \in SUPPORTED_LOOKUP_EXPR(ConfiguredFields[k].kind)} :
                      k \in 1..Len(attrs)}
        /\ \A key \in DOMAIN cls.supported_query_key_field_dict :
              LET e == cls.supported_query_key_field_dict[key]
              IN /\ \E k \in 1..Len(attrs) : e.field = ConfiguredFields[k]
                 /\ e.lookup_expr \in SUPPORTED_LOOKUP_EXPR(e.field.kind)
                 /\ key = GrammarKey(e.field.request_arg_name, e.lookup_expr)


\* The keys of the table that lead to the k-th field of the body
KeysOfField(k) ==
    {key \in DOMAIN cls.supported_query_key_field_dict :
        cls.supported_query_key_field_dict[key].field = ConfiguredFields[k]}

\* Some field of the body builds the key for one of its lookups
BuiltBySomeField(key) ==
    \E k \in 1..Len(attrs) :
        \E l \in SUPPORTED_LOOKUP_EXPR(ConfiguredFields[k].kind) :
            key = GrammarKey(ConfiguredFields[k].request_arg_name, l)

\* The request is one term: a Boolean field's name with a lookup suffix, a key
\* that no field of the body builds
SuffixedBooleanTerm ==
    /\ Len(request_args) = 1
    /\ ~BuiltBySomeField(request_args[1].key)
    /\ \E k \in 1..Len(attrs) :
          /\ ConfiguredFields[k].kind = "BooleanField"
          /\ \E l \in {L_ne, L_gt} :
                request_args[1].key = GrammarKey(ConfiguredFields[k].request_arg_name, l)

RECURSIVE Join(_, _)
\* sep.join(parts)
Join(parts, sep) ==
    IF parts = <<>> THEN <<>>
    ELSE IF Len(parts) = 1 THEN parts[1]
    ELSE parts[1] \o <<sep>> \o Join(Tail(parts), sep)

\* The token names a declared field
KnownToken(token) ==
    (IF IsPrefix(<<"-">>, token) THEN Tail(token) ELSE token)
        \in DOMAIN cls.ordering_field_map

\* The request with the unknown tokens taken out of its ordering
KnownOrderingArgs ==
    <<[key |-> S_ordering,
       value |-> PyStr(Join(SelectSeq(OrderingTokens, KnownToken), ","))]>>

\* C14: cls_order skips the tokens that name no declared field: on a list of
\* records order() ends as it does for the ordering without them, and an
\* ordering of unknown names only raises nothing and leaves the records in
\* their order.
C14_UnknownTokenSkipped ==
    (last.op = "order" /\ prev.kind = "list" /\ request_args # <<>>) =>
        LET known == cls_order(cls, prev, KnownOrderingArgs, last.signature)
        IN /\ last.err = known.err
           /\ data = (IF known.err = "none" THEN known.data ELSE prev)
           /\ (\A k \in 1..Len(OrderingTokens) : ~KnownToken(OrderingTokens[k]))
                  => last.err = "none" /\ data = prev

\* order() with an unknown name before a known one, whose sort moved a record
C14_Witness ==
    /\ last.op = "order"
    /\ last.err = "none"
    /\ Len(OrderingTokens) = 2
    /\ ~KnownToken(OrderingTokens[1])
    /\ KnownToken(OrderingTokens[2])
    /\ data # prev


\* C15: filter() and order() on data that is neither a query nor an iterable
\* raise TypeError, whatever the request, and leave no such data as a result.
C15_UnsupportedDataRaises ==
    (last.op \in {"filter", "order"} /\ prev.kind = "other") =>
        last.err = "TypeError"

\* The half of C15 that holds: cls_filter raises TypeError on such data for
\* every request, and cls_order does for every request with an ordering.
C15_RaisesWhenBackendIsChosen ==
    (/\ last.op \in {"filter", "order"}
     /\ prev.kind = "other"
     /\ last.op = "order" => Truthy(DictGet(request_args, S_ordering, PyStr(<<>>)))) =>
        last.err = "TypeError"


(***************************************************************************)
(* SpecMapping: a ClassHierarchyMapping instance and the calls on it        *)
(***************************************************************************)

\* The classes of the mapping checks and an object that is no class
MappingKeys == { K_object, K_A, K_B, K_C, K_D, K_instance }

MappingValues == { PyStr(S_a), PyStr(S_b) }

\* ClassHierarchyMapping(mapping): the dicts from some classes to values
InitMapping ==
    /\ attrs = <<>>
    /\ cls = NotCompiled
    /\ data = ListData(<<>>)
    /\ request_args = <<>>
    /\ orig = data
    /\ prev = data
    /\ last = NoOp
    /\ steps = 0
    /\ meta = NoMeta
    /\ sub = NoSub
    /\ shared = NoShared
    /\ callers = NoCallers
    /\ \E S \in SUBSET {K_object, K_A, K_B} : mapping \in [S -> MappingValues]

\* mapping[key]
GetItem ==
    /\ steps < MaxSteps
    /\ \E key \in MappingKeys :
          LET r == ClassHierarchyMapping_getitem(mapping, key)
          IN last' = [NoOp EXCEPT !.op = "getitem", !.key = key, !.err = r.err,
                                  !.value = r.value]
    /\ steps' = steps + 1
    /\ UNCHANGED <<sub, shared, callers, meta, mapping, attrs, cls, data, request_args, orig, prev>>

\* key in mapping
Contains ==
    /\ steps < MaxSteps
    /\ \E key \in MappingKeys :
          last' = [NoOp EXCEPT !.op = "contains", !.key = key,
                               !.value = PyBool(ClassHierarchyMapping_contains(mapping, key))]
    /\ steps' = steps + 1
    /\ UNCHANGED <<sub, shared, callers, meta, mapping, attrs, cls, data, request_args, orig, prev>>

\* mapping.get(key, None)
Get ==
    /\ steps < MaxSteps
    /\ \E key \in MappingKeys :
          last' = [NoOp EXCEPT !.op = "get", !.key = key,
                               !.value = ClassHierarchyMapping_get(mapping, key, PyNone)]
    /\ steps' = steps + 1
    /\ UNCHANGED <<sub, shared, callers, meta, mapping, attrs, cls, data, request_args, orig, prev>>

\* mapping[key] = value
SetItem ==
    /\ steps < MaxSteps
    /\ \E key \in MappingKeys, value \in MappingValues :
          LET r == ClassHierarchyMapping_setitem(mapping, key, value)
          IN /\ mapping' = IF r.err = "none" THEN r.value ELSE mapping
             /\ last' = [NoOp EXCEPT !.op = "setitem", !.key = key, !.err = r.err]
    /\ steps' = steps + 1
    /\ UNCHANGED <<sub, shared, callers, meta, attrs, cls, data, request_args, orig, prev>>

NextMapping == GetItem \/ Contains \/ Get \/ SetItem

SpecMapping == InitMapping /\ [][NextMapping]_vars


\* x is c or an ancestor of c: the reflexive and transitive closure of
\* __bases__, at most four levels deep here
RECURSIVE IsAncestorWithin(_, _, _)
IsAncestorWithin(x, c, depth) ==
    \/ x = c
    \/ /\ depth > 0
       /\ \E k \in 1..Len(Bases(c)) : IsAncestorWithin(x, Bases(c)[k], depth - 1)

IsAncestor(x, c) == IsAncestorWithin(x, c, 4)

\* The registered classes among c and its ancestors
RegisteredAncestors(c) == {x \in DOMAIN mapping : IsAncestor(x, c)}

\* C19: a lookup of a class walks its MRO from most to least specific and
\* returns the value of the first registered class on it: a registered class
\* resolves to its own entry, an unregistered one to a nearest registered
\* ancestor (no registered class lies between them), the lookup raises
\* KeyError exactly when no ancestor is registered, D(B, C) walks D, B, C, A,
\* object, and `key in mapping` is true exactly when the walk finds an entry
C19_LookupWalksMRO ==
    /\ getmro(K_D) = <<K_D, K_B, K_C, K_A, K_object>>
    /\ (last.op = "getitem" /\ isclass(last.key)) =>
          LET mro == getmro(last.key)
          IN /\ (last.err = "KeyError") <=> (RegisteredAncestors(last.key) = {})
             /\ last.err \in {"none", "KeyError"}
             /\ last.err = "none" =>
                   \E k \in 1..Len(mro) :
                      /\ mro[k] \in DOMAIN mapping
                      /\ \A j \in 1..(k - 1) : mro[j] \notin DOMAIN mapping
                      /\ last.value = mapping[mro[k]]
                      /\ \A y \in RegisteredAncestors(last.key) :
                            IsAncestor(mro[k], y) => y = mro[k]
             /\ last.key \in DOMAIN mapping =>
                   last.err = "none" /\ last.value = mapping[last.key]
    /\ (last.op = "contains" /\ isclass(last.key)) =>
          /\ last.value = PyBool(RegisteredAncestors(last.key) # {})
          /\ last.value = PyBool(ClassHierarchyMapping_getitem(mapping, last.key).err = "none")

\* D is not registered, its bases B and A are, with different values, and the
\* lookup of D returned the value of B
C19_Witness ==
    /\ last.op = "getitem"
    /\ last.key = K_D
    /\ K_D \notin DOMAIN mapping
    /\ K_B \in DOMAIN mapping
    /\ K_A \in DOMAIN mapping
    /\ mapping[K_B] # mapping[K_A]
    /\ last.err = "none"
    /\ last.value = mapping[K_B]


\* Some record of the list does not resolve the key
KeyMissing(items, key) ==
    \E k \in 1..Len(items) : get_nested_value(items[k], key).err # "none"

\* The call was an IterableBackend.order whose first raising sort (the sorts
\* run from the last requested key to the first) raised for a key that a
\* record lacks
OrderFailedOnMissingKey ==
    /\ last.op \in {"backend_order", "backend_order_key"}
    /\ \E i \in 1..Len(last.ordering) :
          /\ KeyMissing(prev.items, last.ordering[i].key)
          /\ \A j \in (i + 1)..Len(last.ordering) :
                ~SortFails(prev.items, last.ordering[j].key)

\* C20: when a sort of IterableBackend.order fails because a record lacks a
\* requested key, the call returns the records in their input order, for any
\* list of requested keys
C20_MissingKeyReturnsOriginal ==
    OrderFailedOnMissingKey => data = prev

\* With one requested key the failing sort is the first one and the input comes
\* back as it was
C20_SingleMissingKeyReturnsOriginal ==
    (OrderFailedOnMissingKey /\ Len(last.ordering) = 1) => data = prev


(***************************************************************************)
(* SpecPeewee: PeeweeBackend.order called on a query                        *)
(***************************************************************************)

\* The nodes a query of the checks selects
SelectedNodes ==
    { FieldNode(S_n), FieldNode(S_a), AliasNode(S_a, S_x), OtherNode }

\* The names asked for: two columns, an alias, a name no column has, and the
\* empty name
PeeweeNames == { S_n, S_a, S_x, S_u, <<>> }

\* The fields asked for, and the (field, is_negative) tuples of an ordering
PeeweeFields == { FieldNode(S_n), FieldNode(S_a), FieldNode(S_u) }
PeeweePairs == {[field |-> f, is_negative |-> b] : f \in PeeweeFields, b \in BOOLEAN}

InitPeewee ==
    /\ attrs = <<>>
    /\ cls = NotCompiled
    /\ data \in {QueryData(sel, ob) : sel \in SeqsUpTo(SelectedNodes, MaxFields),
                                      ob \in {<<>>, <<Ordered(S_n, TRUE)>>}}
    /\ request_args = <<>>
    /\ orig = data
    /\ prev = data
    /\ last = NoOp
    /\ steps = 0
    /\ meta = NoMeta
    /\ mapping = NoMap
    /\ sub = NoSub
    /\ shared = NoShared
    /\ callers = NoCallers

\* data = PeeweeBackend.order(data, ordering), ordering a list of tuples
PeeweeOrder ==
    /\ last.op = "none"
    /\ \E ordering \in SeqsUpTo(PeeweePairs, MaxOrdering) :
          /\ data' = PeeweeBackend_order(data, ordering)
          /\ last' = [NoOp EXCEPT !.op = "peewee_order",
                         !.ordering = [k \in 1..Len(ordering) |->
                                          [key |-> ordering[k].field.column_name,
                                           is_reverse |-> ordering[k].is_negative]]]
    /\ prev' = data
    /\ steps' = steps + 1
    /\ UNCHANGED <<sub, shared, callers, meta, mapping, attrs, cls, request_args, orig>>

\* data = PeeweeBackend.order(data, field_name, is_negative)
PeeweeOrderKey ==
    /\ last.op = "none"
    /\ \E field_name \in PeeweeNames, is_negative \in BOOLEAN :
          /\ data' = PeeweeBackend_order_key(data, field_name, is_negative)
          /\ last' = [NoOp EXCEPT !.op = "peewee_order_key",
                         !.ordering = <<[key |-> field_name, is_reverse |-> is_negative]>>]
    /\ prev' = data
    /\ steps' = steps + 1
    /\ UNCHANGED <<sub, shared, callers, meta, mapping, attrs, cls, request_args, orig>>

NextPeewee == PeeweeOrder \/ PeeweeOrderKey

SpecPeewee == InitPeewee /\ [][NextPeewee]_vars

\* The projected column names of the query: the column name of a selected
\* field, the alias of an aliased projection
ProjectedNames(query) ==
    {IF query.selected_columns[k].node = "Alias"
     THEN query.selected_columns[k].alias_name
     ELSE query.selected_columns[k].column_name :
        k \in {j \in 1..Len(query.selected_columns) :
                  query.selected_columns[j].node \in {"Field", "Alias"}}}

\* The call was a PeeweeBackend.order
PeeweeOrdered == last.op \in {"peewee_order", "peewee_order_key"}

\* The names the call asked for
RequestedNames == {last.ordering[k].key : k \in 1..Len(last.ordering)}

\* C18: PeeweeBackend.order returns the query unchanged, with no order
\* directive added, when a requested name is not among the projected column
\* names of the query
C18_UnknownNameIsNoOp ==
    PeeweeOrdered =>
       /\ \A k \in 1..Len(data.order_by) :
             data.order_by[k].name \in RequestedNames \ ProjectedNames(prev)
                => data.order_by = prev.order_by
       /\ (RequestedNames # {} /\ RequestedNames \cap ProjectedNames(prev) = {})
             => data = prev

\* The form order(query, field_name, is_negative) leaves the query as it was
\* for every name that no selected node has; the name of a node that is
\* neither a field nor an alias is the empty string
C18_KeyFormValidates ==
    (last.op = "peewee_order_key"
        /\ \A k \in 1..Len(prev.selected_columns) :
              get_node_name(prev.selected_columns[k]) # last.ordering[1].key)
       => data = prev


(***************************************************************************)
(* SpecFrame: a Model instance and every call the class offers              *)
(***************************************************************************)

\* Requests with at most one filter term and an ordering
FrameArgs ==
    {q \o o : q \in {<<>>,
                     <<[key |-> S_n, value |-> PyStr(S_b)]>>,
                     <<[key |-> S_a \o <<"_", "_">> \o L_gte, value |-> PyStr(<<"2">>)]>>,
                     <<[key |-> <<"f", "o", "o">>, value |-> PyStr(S_b)]>>},
              o \in {<<>>,
                     <<[key |-> S_ordering, value |-> PyStr(<<"-">> \o S_a)]>>,
                     <<[key |-> S_ordering, value |-> PyStr(S_n \o <<",", "-">> \o S_p_c)]>>}}

InitFrame ==
    /\ attrs = FilterModelBody
    /\ cls = ModelMeta_new(attrs)
    /\ data \in {ListData(q) : q \in SeqsUpTo(Records, MaxLen)} \cup {OtherData}
    /\ request_args \in FrameArgs
    /\ orig = data
    /\ prev = data
    /\ last = NoOp
    /\ steps = 0
    /\ meta = NoMeta
    /\ mapping = NoMap
    /\ sub = NoSub
    /\ shared = NoShared
    /\ callers = NoCallers

\* cls.cls_filter(data, request_args): the classmethod, its result dropped
ClsFilter ==
    /\ steps < MaxSteps
    /\ cls.status = "ok"
    /\ last' = [NoOp EXCEPT !.op = "cls_filter",
                            !.err = cls_filter(cls, data, request_args).err]
    /\ steps' = steps + 1
    /\ UNCHANGED <<sub, shared, callers, meta, mapping, attrs, cls, data, request_args, orig, prev>>

\* cls.cls_order(data, request_args): the classmethod, its result dropped
ClsOrder ==
    /\ steps < MaxSteps
    /\ cls.status = "ok"
    /\ \E signature \in OrderSignatures :
          last' = [NoOp EXCEPT !.op = "cls_order",
                               !.err = cls_order(cls, data, request_args, signature).err,
                               !.signature = signature]
    /\ steps' = steps + 1
    /\ UNCHANGED <<sub, shared, callers, meta, mapping, attrs, cls, data, request_args, orig, prev>>

\* Model.result: return self.data
Result ==
    /\ steps < MaxSteps
    /\ cls.status = "ok"
    /\ last' = [NoOp EXCEPT !.op = "result"]
    /\ steps' = steps + 1
    /\ UNCHANGED <<sub, shared, callers, meta, mapping, attrs, cls, data, request_args, orig, prev>>

NextFrame == Filter \/ Order \/ ClsFilter \/ ClsOrder \/ Result

SpecFrame == InitFrame /\ [][NextFrame]_vars

SchemaField(name, class) ==
    [name |-> name, class |-> class, is_model |-> FALSE, nested |-> <<>>]
SchemaModel(name, nested) ==
    [name |-> name, class |-> K_object, is_model |-> TRUE, nested |-> nested]

\* class T(peewee.Model): a = IntegerField(); b = BooleanField(); u = UUIDField()
PeeweeSchema ==
    [kind |-> "peewee",
     fields |-> << SchemaField(S_a, K_IntegerField), SchemaField(S_b, K_BooleanField),
                   SchemaField(S_u, K_UUIDField) >>]

\* class T(pydantic.BaseModel): a: int; p: P; b: bool, with P holding c: str
PydanticSchema ==
    [kind |-> "pydantic",
     fields |-> << SchemaField(S_a, K_int),
                   SchemaModel(S_p, << SchemaField(S_c, K_str) >>),
                   SchemaField(S_b, K_bool) >>]

\* The Meta classes of the checks
Metas ==
    [schema : {NoSchema, PeeweeSchema, PydanticSchema},
     fields : {<<>>, <<S_a, S_pc>>},
     extra_field : {<<>>,
                    <<Decl(S_a, "DateField", NoName, NoSource)>>,
                    <<Decl(S_b, "DateField", NoName, PeeweeSource(S_b))>>}]

\* The fields a class body declares beside its Meta
ExplicitDecls ==
    {Decl(n, "StrField", NoName, IF pw THEN PeeweeSource(n) ELSE NoSource) :
        n \in {S_a, S_p_c, S_x}, pw \in BOOLEAN}

InitSchema ==
    /\ attrs = <<>>
    /\ cls = NotCompiled
    /\ data = ListData(<<>>)
    /\ request_args = <<>>
    /\ orig = data
    /\ prev = data
    /\ last = NoOp
    /\ steps = 0
    /\ meta \in Metas
    /\ mapping = NoMap
    /\ sub = NoSub
    /\ shared = NoShared
    /\ callers = NoCallers

\* One more field line in the class body
DeclareExplicit ==
    /\ cls.status = "none"
    /\ Len(attrs) < MaxFields
    /\ \E d \in ExplicitDecls :
          /\ \A k \in 1..Len(attrs) : attrs[k].name # d.name
          /\ attrs' = Append(attrs, d)
    /\ UNCHANGED <<sub, shared, callers, meta, mapping, cls, data, request_args, orig, prev, last, steps>>

\* The class statement ends: ModelMeta.__new__ runs on the body and its Meta
CompileMeta ==
    /\ cls.status = "none"
    /\ cls' = ModelMeta_new_Meta(meta, attrs)
    /\ UNCHANGED <<sub, shared, callers, meta, mapping, attrs, data, request_args, orig, prev, last, steps>>

NextSchema == DeclareExplicit \/ CompileMeta

SpecSchema == InitSchema /\ [][NextSchema]_vars

\* The names of a sequence of declarations
NamesOf(decls) == {decls[k].name : k \in 1..Len(decls)}

\* The fields derived from the schema alone
SchemaDerived == get_filter_fields([meta EXCEPT !.extra_field = <<>>])

\* C16: in a created class with a schema, the ordering table holds, under each
\* name, the field the class body declares for it, else the field extra_field
\* gives for it, else the schema-derived field; it holds nothing else; and
\* every query key of each of these fields leads to that field, so that no
\* entry of the query-key table leads to a replaced schema field
C16_ExplicitReplacesSchema ==
    cls.status = "ok" =>
       LET ofm == cls.ordering_field_map
           table == cls.supported_query_key_field_dict
       IN /\ DOMAIN ofm = NamesOf(SchemaDerived) \cup NamesOf(meta.extra_field)
                             \cup NamesOf(attrs)
          /\ \A k \in 1..Len(attrs) : ofm[attrs[k].name] = configure_field(attrs[k])
          /\ \A k \in 1..Len(meta.extra_field) :
                meta.extra_field[k].name \notin NamesOf(attrs)
                   => ofm[meta.extra_field[k].name] = configure_field(meta.extra_field[k])
          /\ \A k \in 1..Len(SchemaDerived) :
                SchemaDerived[k].name \notin NamesOf(attrs) \cup NamesOf(meta.extra_field)
                   => ofm[SchemaDerived[k].name] = configure_field(SchemaDerived[k])
          /\ \A key \in DOMAIN table : \E n \in DOMAIN ofm : table[key].field = ofm[n]
          /\ \A n \in DOMAIN ofm :
                \A l \in SUPPORTED_LOOKUP_EXPR(ofm[n].kind) :
                   /\ supported_query_key(ofm[n], l) \in DOMAIN table
                   /\ table[supported_query_key(ofm[n], l)].field = ofm[n]

\* A class over the pydantic schema whose body declares `a` as a StrField: the
\* tables hold the StrField under a, and the schema's bool field under b
C16_Witness ==
    /\ cls.status = "ok"
    /\ meta.schema.kind = "pydantic"
    /\ meta.fields = <<>>
    /\ meta.extra_field = <<>>
    /\ S_a \in NamesOf(attrs)
    /\ S_b \notin NamesOf(attrs)
    /\ cls.ordering_field_map[S_a].kind = "StrField"
    /\ cls.supported_query_key_field_dict[S_a].field.kind = "StrField"
    /\ cls.ordering_field_map[S_b].kind = "BooleanField"
    /\ cls.ordering_field_map[S_p_c].request_arg_name = S_pc


(***************************************************************************)
(* SpecShortcut: compatible_request_args called on a request                *)
(***************************************************************************)

\* The operators written in the keys: the eight of the map and one outside it
KeyOperators == DOMAIN OperatorMap \cup {<<"X">>}

\* The keys a(op), and the bare key a
ShortcutKeys == {S_a \o <<"(">> \o op \o <<")">> : op \in KeyOperators} \cup {S_a}

\* The values: with wildcards around, bare, and quoted
ShortcutValues ==
    { PyStr(<<"%", "b", "%">>), PyStr(S_b), PyStr(<<"'", "b", "'">>) }

ShortcutArgs ==
    {args \in SeqsUpTo({[key |-> k, value |-> v] : k \in ShortcutKeys, v \in ShortcutValues},
                       MaxArgs) : DistinctKeys(args)}

\* A dict as data
DictData(items) == [kind |-> "dict", items |-> items]

InitShortcut ==
    /\ attrs = <<>>
    /\ cls = NotCompiled
    /\ data = DictData(<<>>)
    /\ request_args \in ShortcutArgs
    /\ orig = DictData(request_args)
    /\ prev = DictData(request_args)
    /\ last = NoOp
    /\ steps = 0
    /\ meta = NoMeta
    /\ mapping = NoMap
    /\ sub = NoSub
    /\ shared = NoShared
    /\ callers = NoCallers

\* data = compatible_request_args(request_args), lumi_filter/shortcut
Convert ==
    /\ last.op = "none"
    /\ LET out == compatible_request_args(request_args)
       IN /\ data' = DictData(out.ret)
          /\ request_args' = out.args
          /\ last' = [NoOp EXCEPT !.op = "compatible_request_args", !.err = out.err]
    /\ steps' = steps + 1
    /\ UNCHANGED <<sub, shared, callers, meta, mapping, attrs, cls, orig, prev>>

\* data = compatible_request_args(request_args), src/lumi_filter/shortcut
ConvertTry ==
    /\ last.op = "none"
    /\ LET out == compatible_request_args_try(request_args)
       IN /\ data' = DictData(out.ret)
          /\ request_args' = out.args
          /\ last' = [NoOp EXCEPT !.op = "compatible_request_args_try", !.err = out.err]
    /\ steps' = steps + 1
    /\ UNCHANGED <<sub, shared, callers, meta, mapping, attrs, cls, orig, prev>>

NextShortcut == Convert \/ ConvertTry

SpecShortcut == InitShortcut /\ [][NextShortcut]_vars

\* The operator written in a key field(op), and its field
OperatorOf(key) ==
    LET rest == SplitOnce(key, "(")[2] IN SubSeq(rest, 1, Len(rest) - 1)
FieldOf(key) == SplitOnce(key, "(")[1]

\* The key has the form field(op)
OperatorForm(key) ==
    /\ Len(SplitOnce(key, "(")) = 2
    /\ key[Len(key)] = ")"

\* The internal request key for field(op), op an operator of the map
InternalKey(key) ==
    CASE OperatorOf(key) = <<"=", "=">> -> FieldOf(key)
      [] OperatorOf(key) = <<"!", "=">> -> FieldOf(key) \o <<"!">>
      [] OTHER -> FieldOf(key) \o <<"_", "_">> \o OperatorMap[OperatorOf(key)]

\* The value without the wildcard characters around it
StripWildcards(v) ==
    IF v.t = "str" /\ Len(v.s) > 2 /\ v.s[1] = "%" /\ v.s[Len(v.s)] = "%"
    THEN PyStr(SubSeq(v.s, 2, Len(v.s) - 1))
    ELSE v

\* The value kept for the entry: without its wildcards for LIKE and ILIKE
InternalValue(term) ==
    IF OperatorOf(term.key) \in {<<"L", "I", "K", "E">>, <<"I", "L", "I", "K", "E">>}
    THEN StripWildcards(term.value)
    ELSE term.value

\* A call of compatible_request_args has returned or raised
Converting == last.op \in {"compatible_request_args", "compatible_request_args_try"}

\* C21: on a request whose keys all have the form field(op), with every op
\* one of the eight operators, compatible_request_args returns one entry per
\* input entry, under the internal key of the grammar and with the value kept
\* (LIKE and ILIKE without the wildcards around it); an operator outside the
\* eight raises ValueError
C21_TranslatesOperatorKeys ==
    (Converting /\ \A k \in 1..Len(orig.items) : OperatorForm(orig.items[k].key)) =>
       IF \A k \in 1..Len(orig.items) : OperatorOf(orig.items[k].key) \in DOMAIN OperatorMap
       THEN /\ last.err = "none"
            /\ Len(data.items) = Len(orig.items)
            /\ \A k \in 1..Len(orig.items) :
                  /\ data.items[k].key = InternalKey(orig.items[k].key)
                  /\ data.items[k].value = InternalValue(orig.items[k])
       ELSE last.err = "ValueError"

\* The copy under src/lumi_filter never raises and leaves its argument as it
\* was; when every key has the form field(op), every entry with one of the
\* eight operators gets the internal key of the grammar, its value losing
\* quotes, not wildcards, and an entry with another operator is left out
C21_TryFormFollowsGrammar ==
    last.op = "compatible_request_args_try" =>
       /\ last.err = "none"
       /\ request_args = orig.items
       /\ (\A k \in 1..Len(orig.items) : OperatorForm(orig.items[k].key)) =>
             /\ \A k \in 1..Len(orig.items) :
                   OperatorOf(orig.items[k].key) \in DOMAIN OperatorMap =>
                      DictGet(data.items, InternalKey(orig.items[k].key), PyNone)
                         = IF OperatorOf(orig.items[k].key) \in
                                 {<<"L", "I", "K", "E">>, <<"I", "L", "I", "K", "E">>}
                           THEN Unquoted(orig.items[k].value)
                           ELSE orig.items[k].value
             /\ Len(data.items) =
                   Cardinality({k \in 1..Len(orig.items) :
                                   OperatorOf(orig.items[k].key) \in DOMAIN OperatorMap})

\* The copy beside model.py raises for every request that is not empty:
\* RuntimeError when the only key has one of the eight operators
C21_EveryRequestRaises ==
    (last.op = "compatible_request_args" /\ orig.items # <<>>) =>
       /\ last.err \in {"RuntimeError", "ValueError"}
       /\ (/\ Len(orig.items) = 1
           /\ OperatorForm(orig.items[1].key)
           /\ OperatorOf(orig.items[1].key) \in DOMAIN OperatorMap)
             => last.err = "RuntimeError"


\* Every record of the list resolves every key of the ordering
AllResolve(items, ordering) ==
    \A i \in 1..Len(ordering), k \in 1..Len(items) :
        get_nested_value(items[k], ordering[i].key).err = "none"

\* ... and < orders the values of any two records under every key
AllComparable(items, ordering) ==
    \A i \in 1..Len(ordering) : ~SortFails(items, ordering[i].key)

\* x goes before y under the composite key: the first key of the ordering on
\* which the two differ decides, in the direction of that key
CompositeBefore(x, y, ordering) ==
    \E i \in 1..Len(ordering) :
        LET c(j) == Cmp3(get_nested_value(x, ordering[j].key).value,
                         get_nested_value(y, ordering[j].key).value)
        IN /\ \A j \in 1..(i - 1) : c(j) = 0
           /\ IF ordering[i].is_reverse THEN c(i) > 0 ELSE c(i) < 0

RECURSIVE CompositeSorted(_, _)
\* The single stable sort by the composite key: each record goes before the
\* first record that must follow it
CompositeSorted(items, ordering) ==
    IF items = <<>> THEN <<>>
    ELSE LET n == Len(items)
             x == items[n]
             head == CompositeSorted(SubSeq(items, 1, n - 1), ordering)
             pos == IF \E k \in 1..Len(head) : CompositeBefore(x, head[k], ordering)
                    THEN CHOOSE k \in 1..Len(head) :
                             /\ CompositeBefore(x, head[k], ordering)
                             /\ \A h \in 1..(k - 1) : ~CompositeBefore(x, head[h], ordering)
                    ELSE Len(head) + 1
         IN SubSeq(head, 1, pos - 1) \o <<x>> \o SubSeq(head, pos, Len(head))

Occurrences(x, q) == Cardinality({k \in 1..Len(q) : q[k] = x})

\* Every record of a occurs in b at least as often
SubBagOf(a, b) == \A k \in 1..Len(a) : Occurrences(a[k], a) <= Occurrences(a[k], b)

\* a holds the records of b, each as often
PermutationOf(a, b) == Len(a) = Len(b) /\ SubBagOf(a, b)

\* C24: on an instance that holds a list, after any sequence of filter() and
\* order() calls the data holds only records of the original input, none more
\* often than there, and every order() call, raising or not, leaves a
\* permutation of the data it found, so that order() calls alone leave a
\* permutation of the original input
C24_NoRecordAddedOrLost ==
    data.kind = "list" =>
       /\ SubBagOf(data.items, orig.items)
       /\ last.op = "order" => PermutationOf(data.items, prev.items)
       /\ (last.op = "order" /\ prev = orig) => PermutationOf(data.items, orig.items)
       /\ last.op = "filter" => SubBagOf(data.items, prev.items)

\* The second call, an order(), moved the two different records of the input
C24_Witness ==
    /\ steps = 2
    /\ last.op = "order"
    /\ last.err = "none"
    /\ Len(orig.items) = 2
    /\ orig.items[1] # orig.items[2]
    /\ data.items = <<orig.items[2], orig.items[1]>>


(***************************************************************************)
(* SpecChain: filter() and order() chained on a Model instance              *)
(***************************************************************************)

InitChain ==
    /\ attrs = FilterModelBody
    /\ cls = ModelMeta_new(attrs)
    /\ data \in {ListData(q) : q \in SeqsUpTo(Records, MaxOrderLen)}
    /\ request_args \in FrameArgs
    /\ orig = data
    /\ prev = data
    /\ last = NoOp
    /\ steps = 0
    /\ meta = NoMeta
    /\ mapping = NoMap
    /\ sub = NoSub
    /\ shared = NoShared
    /\ callers = NoCallers

NextChain == Filter \/ Order

SpecChain == InitChain /\ [][NextChain]_vars

\* The sources of the declared fields that the ordering of the request names
OrderingSources ==
    LET Named(t) == IF IsPrefix(<<"-">>, t) THEN Tail(t) ELSE t
    IN {cls.ordering_field_map[Named(t)].source.p :
           t \in {u \in {OrderingTokens[k] : k \in 1..Len(OrderingTokens)} :
                     Named(u) \in DOMAIN cls.ordering_field_map}}

\* Every record of the original input resolves every ordering key, to values
\* that < orders
InputOrderable == \A key \in OrderingSources : ~SortFails(orig.items, key)

\* What a call leaves in the instance: the exception, and self.data
Left2(out, before) == [err |-> out.err, data |-> IF out.err = "none" THEN out.data ELSE before]

TableLookups ==
    {cls.supported_query_key_field_dict[key].lookup_expr :
        key \in DOMAIN cls.supported_query_key_field_dict}

\* C27: every lookup of the compiled query-key table has an operator in the
\* lookup-operator map of both backends, and every Backend.filter call that
\* cls_filter makes names a lookup that has one
C27_SupportedLookupsHaveOperators ==
    last.op = "filter" =>
       /\ \A k \in 1..Len(last.calls) : last.calls[k].lookup_expr \in IterableLookups
       /\ TableLookups \subseteq IterableLookups
       /\ TableLookups \subseteq PeeweeLookups

\* The one lookup without an operator is nin: a filter() whose calls all name
\* another lookup applies the operator of each, and a filter() on the one term
\* field__nin=value keeps every record
C27_OnlyNinHasNoOperator ==
    /\ TableLookups \ {L_nin} \subseteq IterableLookups \cap PeeweeLookups
    /\ (/\ last.op = "filter"
        /\ Len(last.calls) = 1
        /\ last.calls[1].lookup_expr = L_nin) => (last.err = "none" /\ data = prev)

(***************************************************************************)
(* SpecSubclass: `class B(A)` over a compiled model class A                 *)
(***************************************************************************)

\* Declarations of the parent A: the names a and b, either field class, with
\* the default request_arg_name or the name x
ParentDecls ==
    {d \in Decls : /\ d.name \in {S_a, S_b}
                   /\ d.source = NoSource
                   /\ d.request_arg_name \in {NoName, Name(S_x)}}

\* Declarations of the subclass B: names that A never declares
SubDecls ==
    {d \in Decls : /\ d.name \notin {S_a, S_b}
                   /\ d.source = NoSource
                   /\ d.request_arg_name \in {NoName, Name(S_x)}}

\* Class bodies of the parent: up to MaxFields declarations, no name twice,
\* that ModelMeta.__new__ accepts
ParentBodies ==
    {b \in SeqsUpTo(ParentDecls, MaxFields) :
        /\ Len(b) > 0
        /\ \A k, j \in 1..Len(b) : k # j => b[k].name # b[j].name
        /\ ModelMeta_new(b).status = "ok"}

InitSubclass ==
    /\ attrs \in ParentBodies
    /\ cls = ModelMeta_new(attrs)
    /\ data = ListData(<<>>)
    /\ request_args = <<>>
    /\ orig = data
    /\ prev = data
    /\ last = NoOp
    /\ steps = 0
    /\ meta = NoMeta
    /\ mapping = NoMap
    /\ sub = NoSub
    /\ shared = NoShared
    /\ callers = NoCallers

\* One more `name = SomeField(...)` line in the body of `class B(A)`, of a
\* name that A does not declare
DeclareSub ==
    /\ sub.cls.status = "none"
    /\ Len(sub.attrs) < MaxFields
    /\ \E d \in SubDecls :
          /\ d.name \notin NamesOf(attrs) \cup NamesOf(sub.attrs)
          /\ sub' = [sub EXCEPT !.attrs = Append(sub.attrs, d)]
    /\ UNCHANGED <<shared, callers, meta, mapping, attrs, cls, data, request_args,
                   orig, prev, last, steps>>

\* The end of the statement `class B(A)`: ModelMeta.__new__ runs on the body of
\* B; it reads `attrs` only and never `bases`, and the two tables it stores in
\* the namespace of B are the ones attribute lookup on B finds
CompileSub ==
    /\ sub.cls.status = "none"
    /\ sub' = [sub EXCEPT !.cls = ModelMeta_new(sub.attrs)]
    /\ UNCHANGED <<shared, callers, meta, mapping, attrs, cls, data, request_args,
                   orig, prev, last, steps>>

\* B(d, args).filter() on the subclass
FilterSub ==
    /\ sub.cls.status = "ok"
    /\ last.op = "none"
    /\ \E d \in CompileData, args \in CompileArgs :
          LET out == cls_filter(sub.cls, d, args)
          IN /\ data' = IF out.err = "none" THEN out.data ELSE d
             /\ prev' = d
             /\ orig' = d
             /\ request_args' = args
             /\ last' = [NoOp EXCEPT !.op = "filter", !.err = out.err,
                                     !.calls = out.calls]
    /\ steps' = steps + 1
    /\ UNCHANGED <<sub, shared, callers, meta, mapping, attrs, cls>>

NextSubclass == DeclareSub \/ CompileSub \/ FilterSub

SpecSubclass == InitSubclass /\ [][NextSubclass]_vars

\* C26: a class B that subclasses a compiled model A without redeclaring A's
\* fields has every request key of A's query-key table in its own table and
\* every ordering name of A among its ordering names.
C26_SubclassKeepsFields ==
    sub.cls.status = "ok" =>
        /\ DOMAIN cls.supported_query_key_field_dict
              \subseteq DOMAIN sub.cls.supported_query_key_field_dict
        /\ DOMAIN cls.ordering_field_map \subseteq DOMAIN sub.cls.ordering_field_map

\* What the code does instead: the tables of B are those of B's own body, so
\* a request key or an ordering name of A is B's only if B's body yields it
C26_SubclassTablesAreOwnBody ==
    sub.cls.status = "ok" =>
        /\ sub.cls = ModelMeta_new(sub.attrs)
        /\ DOMAIN sub.cls.ordering_field_map = NamesOf(sub.attrs)
        /\ DOMAIN cls.ordering_field_map \cap DOMAIN sub.cls.ordering_field_map = {}

\* B(d, args).filter() with a request key of A alone: no backend call is made
C26_ParentKeyIgnored ==
    (/\ last.op = "filter"
     /\ \A k \in 1..Len(request_args) :
           /\ request_args[k].key \in DOMAIN cls.supported_query_key_field_dict
           /\ request_args[k].key \notin DOMAIN sub.cls.supported_query_key_field_dict)
        => last.calls = <<>> /\ data = prev

C26_Witness ==
    /\ last.op = "filter"
    /\ sub.attrs = <<>>
    /\ Len(request_args) = 1
    /\ request_args[1].key \in DOMAIN cls.supported_query_key_field_dict
    /\ data = prev

(***************************************************************************)
(* SpecAuto: AutoQueryModel(data, request_args), then filter() and order()  *)
(* on the model it returns                                                  *)
(***************************************************************************)

\* A record with the top-level leaf p_c next to the nested leaf p.c
UnderscoreRecord ==
    PyDict([k \in {S_n, S_p_c, S_p} |->
              CASE k = S_n -> PyStr(<<"o">>)
                [] k = S_p_c -> PyInt(1)
                [] OTHER -> PyDict([j \in {S_c} |-> PyStr(S_u)])])

AutoRecords == { Rec(S_b, PyInt(1), S_u), Rec(S_b, PyInt(2), S_x), UnderscoreRecord }

\* Lists and one-shot iterators of records, and an object that is not iterable
AutoData ==
    {ListData(q) : q \in SeqsUpTo(AutoRecords, MaxLen)}
        \cup {IterData(q) : q \in SeqsUpTo(AutoRecords, MaxLen)}
        \cup {OtherData}

\* Requests: no filter or one on a flat or a nested leaf, and no ordering or
\* one token, the dotted path of the nested leaf or its flattened name
AutoArgs ==
    {q \o o : q \in {<<>>,
                     <<[key |-> S_n, value |-> PyStr(S_b)]>>,
                     <<[key |-> S_pc, value |-> PyStr(S_u)]>>},
              o \in {<<>>,
                     <<[key |-> S_ordering, value |-> PyStr(S_pc)]>>,
                     <<[key |-> S_ordering, value |-> PyStr(<<"-">> \o S_pc)]>>,
                     <<[key |-> S_ordering, value |-> PyStr(<<"-">> \o S_p_c)]>>}}

\* The two copies of shortcut.py: lumi_filter/shortcut/shortcut.py stores
\* list(data) in AutoQueryModel.data, src/lumi_filter/shortcut/shortcut.py
\* leaves the object handed in there
ShortcutCopies == { "lumi_filter", "src" }

InitAuto ==
    /\ attrs = <<>>
    /\ cls = NotCompiled
    /\ data \in AutoData
    /\ request_args \in AutoArgs
    /\ orig = data
    /\ prev = data
    /\ last = NoOp
    /\ steps = 0
    /\ meta = NoMeta
    /\ mapping = NoMap
    /\ sub = NoSub
    /\ shared = NoShared
    /\ callers = NoCallers

\* model = AutoQueryModel(data, request_args)
Construct ==
    /\ last.op = "none"
    /\ \E copy \in ShortcutCopies :
          LET out == AutoQueryModel_new(data)
          IN /\ attrs' = out.attrs
             /\ cls' = out.cls
             /\ data' = out.data
             /\ shared' = [data |-> IF copy = "lumi_filter" THEN out.data_list ELSE out.data,
                           request_args |-> request_args]
             /\ last' = [NoOp EXCEPT !.op = "construct", !.err = out.err,
                                     !.signature = copy]
    /\ prev' = data
    /\ UNCHANGED <<sub, callers, meta, mapping, request_args, orig, steps>>

\* model.order() with Model.cls_order of src/lumi_filter/model.py
OrderByName ==
    /\ steps < MaxSteps
    /\ cls.status = "ok"
    /\ LET out == cls_order_by_name(data, request_args)
       IN /\ data' = IF out.err = "none" THEN out.data ELSE data
          /\ last' = [NoOp EXCEPT !.op = "order_by_name", !.err = out.err]
    /\ prev' = data
    /\ steps' = steps + 1
    /\ UNCHANGED <<sub, shared, callers, meta, mapping, attrs, cls, request_args, orig>>

NextAuto == Construct \/ Filter \/ Order \/ OrderByName

SpecAuto == InitAuto /\ [][NextAuto]_vars

\* The ordering token of the request, its direction and the name in it
AutoToken == DictGet(request_args, S_ordering, PyStr(<<>>)).s
AutoTokenNegative == IsPrefix(<<"-">>, AutoToken)
AutoTokenName == IF AutoTokenNegative THEN Tail(AutoToken) ELSE AutoToken

\* items are in the order of the values under key, descending if is_negative
OrderedBy(items, key, is_negative) ==
    \A k, j \in 1..Len(items) :
        k < j =>
            LET c == Cmp3(get_nested_value(items[k], key).value,
                          get_nested_value(items[j], key).value)
            IN IF is_negative THEN c >= 0 ELSE c <= 0

\* C22: on a model auto-introspected from nested records, order() with an
\* ordering token that is the dotted path of a nested leaf, optionally prefixed
\* with '-', returns the records ordered by that nested value in the requested
\* direction.
C22_DottedTokenOrders ==
    (/\ last.op \in {"order", "order_by_name"}
     /\ AutoTokenName = S_pc
     /\ ~SortFails(prev.items, S_pc)) =>
        /\ last.err = "none"
        /\ PermutationOf(data.items, prev.items)
        /\ OrderedBy(data.items, S_pc, AutoTokenNegative)

\* What Model.cls_order of lumi_filter/model.py does with the dotted path: the
\* ordering table is keyed by the flattened attribute names, the token is in
\* it under no name, and the records come back as they were
C22_DottedTokenSkipped ==
    (last.op = "order" /\ AutoTokenName = S_pc) =>
        /\ S_pc \notin DOMAIN cls.ordering_field_map
        /\ last.err = "none"
        /\ data = prev

\* Model.cls_order of src/lumi_filter/model.py hands the name of the token to
\* the backend and the records come back ordered
C22_DottedTokenOrdersByName ==
    (/\ last.op = "order_by_name"
     /\ AutoTokenName = S_pc
     /\ ~SortFails(prev.items, S_pc)) =>
        /\ last.err = "none"
        /\ PermutationOf(data.items, prev.items)
        /\ OrderedBy(data.items, S_pc, AutoTokenNegative)

RECURSIVE LeafPaths(_, _)
\* The dotted paths of the leaves of a record: the values that are no dict
LeafPaths(d, prefix) ==
    UNION {IF d.m[k].t = "map"
           THEN LeafPaths(d.m[k], prefix \o k \o <<".">>)
           ELSE {prefix \o k} : k \in DOMAIN d.m}

\* Every leaf path of the sample has a field of its own in the class body and
\* leads, as a request key, to that field
EachLeafHasItsField(leaves) ==
    /\ Cardinality(NamesOf(attrs)) = Cardinality(leaves)
    /\ \A path \in leaves :
          /\ \E k \in 1..Len(attrs) :
                attrs[k].source = StrSource(path) /\ attrs[k].request_arg_name = Name(path)
          /\ path \in DOMAIN cls.supported_query_key_field_dict
          /\ cls.supported_query_key_field_dict[path].field.source = StrSource(path)

\* C28: flattening is injective: in a model auto-introspected from a sample
\* record distinct leaf paths have distinct declared field names, each leaf
\* keeps its own field and request keys, and no leaf's field is overwritten by
\* another, a nested leaf p.c next to a top-level leaf p_c included.
C28_FlatteningInjective ==
    cls.status = "ok" => EachLeafHasItsField(LeafPaths(orig.items[1], <<>>))

\* What holds instead: each leaf has its field when no two leaf paths differ
\* only in "." against "_"
C28_InjectiveUnlessNamesClash ==
    LET leaves == LeafPaths(orig.items[1], <<>>)
    IN (/\ cls.status = "ok"
        /\ \A x, y \in leaves : x # y => Replace(x, ".", "_") # Replace(y, ".", "_"))
           => EachLeafHasItsField(leaves)

\* ... and when a nested leaf and a top-level leaf flatten to one name, the
\* nested leaf, popped from the stack after the top level is done, takes the
\* field and the top-level leaf has no request key
C28_NestedLeafOverwrites ==
    (cls.status = "ok" /\ orig.items[1] = UnderscoreRecord) =>
        /\ \E k \in 1..Len(attrs) : attrs[k].name = S_p_c /\ attrs[k].source = StrSource(S_pc)
        /\ S_p_c \notin DOMAIN cls.supported_query_key_field_dict
        /\ Len(attrs) = 2

\* C29: introspection does not consume the data: the model AutoQueryModel
\* returns for a one-shot iterator of records yields, from filter().result(),
\* the records that the model built from the list of those records yields.
C29_IteratorNotConsumed ==
    (/\ orig.kind = "iterator"
     /\ last.op = "filter"
     /\ steps = 1) =>
        /\ last.err = "none"
        /\ data.items = cls_filter(cls, ListData(orig.items), request_args).data.items

\* What holds instead: list(data) has drawn every record from the iterator
\* before the model is built around it, and the model yields nothing
C29_IteratorExhausted ==
    (cls.status = "ok" /\ orig.kind = "iterator") =>
        /\ orig.items # <<>>
        /\ data.items = <<>>

\* ... while a list handed in is the data of the model, untouched
C29_ListKept ==
    (last.op = "construct" /\ orig.kind = "list") => data = orig

\* ... and filter() on the model built from a list yields what cls_filter
\* yields on that list
C29_ListFiltered ==
    (/\ orig.kind = "list"
     /\ last.op = "filter"
     /\ steps = 1) =>
        data.items = cls_filter(cls, orig, request_args).data.items

(***************************************************************************)
(* SpecRace: two calls of AutoQueryModel(data, request_args) that           *)
(* interleave.  Each call is a sequence of steps; a step reads or writes    *)
(* the class attributes AutoQueryModel.data / .request_args at most once,   *)
(* everything else it touches is local to the call.                         *)
(***************************************************************************)

Callers == {1, 2}

\* Records of two shapes
ShapeRecords == { Rec(S_b, PyInt(1), S_u), PyDict([k \in {S_n} |-> PyStr(<<"o", "n">>)]) }

\* The data of a call: a list of one record, the empty list, or an object that
\* is not iterable
RaceData == {ListData(<<x>>) : x \in ShapeRecords} \cup {ListData(<<>>), OtherData}

RaceArgs == { <<>>, <<[key |-> S_n, value |-> PyStr(S_b)]>> }

NoModel == [cls |-> NotCompiled, data |-> PyNone, request_args |-> PyNone]

\* A call before its first step: its two arguments, the copy of shortcut.py it
\* runs, and its locals
NewCall(d, args, copy) ==
    [pc |-> "start", copy |-> copy, data |-> d, request_args |-> args,
     data_list |-> PyNone, attrs |-> <<>>, err |-> "none", model |-> NoModel]

InitRace ==
    /\ attrs = <<>>
    /\ cls = NotCompiled
    /\ data = ListData(<<>>)
    /\ request_args = <<>>
    /\ orig = data
    /\ prev = data
    /\ last = NoOp
    /\ steps = 0
    /\ meta = NoMeta
    /\ mapping = NoMap
    /\ sub = NoSub
    /\ shared = NoShared
    /\ \E copy \in ShortcutCopies :
          callers \in [Callers -> {NewCall(d, args, copy) : d \in RaceData, args \in RaceArgs}]

\* The call c moves to position pc with the locals changed as in `changes`
Goto(c, next) == callers' = [callers EXCEPT ![c] = next]
Raise(c, e) == Goto(c, [callers[c] EXCEPT !.pc = "raised", !.err = e])

\* cls.data = data
WriteData ==
    /\ \E c \in Callers :
          /\ callers[c].pc = "start"
          /\ shared' = [shared EXCEPT !.data = callers[c].data]
          /\ Goto(c, [callers[c] EXCEPT !.pc = "args"])
    /\ UNCHANGED <<sub, meta, mapping, attrs, cls, data, request_args, orig, prev, last, steps>>

\* cls.request_args = request_args
WriteArgs ==
    /\ \E c \in Callers :
          /\ callers[c].pc = "args"
          /\ shared' = [shared EXCEPT !.request_args = callers[c].request_args]
          /\ Goto(c, [callers[c] EXCEPT !.pc = IF callers[c].copy = "lumi_filter"
                                               THEN "check" ELSE "local"])
    /\ UNCHANGED <<sub, meta, mapping, attrs, cls, data, request_args, orig, prev, last, steps>>

\* lumi_filter/shortcut/shortcut.py: the isinstance tests on cls.data
CheckType ==
    /\ \E c \in Callers :
          /\ callers[c].pc = "check"
          /\ IF shared.data.kind = "list"
             THEN Goto(c, [callers[c] EXCEPT !.pc = "list"])
             ELSE Raise(c, "TypeError")
    /\ UNCHANGED <<sub, shared, meta, mapping, attrs, cls, data, request_args, orig, prev,
                   last, steps>>

\* the right-hand side of cls.data = list(cls.data)
ReadList ==
    /\ \E c \in Callers :
          /\ callers[c].pc = "list"
          /\ IF shared.data.kind = "list"
             THEN Goto(c, [callers[c] EXCEPT !.pc = "store", !.data_list = shared.data])
             ELSE Raise(c, "TypeError")
    /\ UNCHANGED <<sub, shared, meta, mapping, attrs, cls, data, request_args, orig, prev,
                   last, steps>>

\* the assignment of cls.data = list(cls.data)
StoreList ==
    /\ \E c \in Callers :
          /\ callers[c].pc = "store"
          /\ shared' = [shared EXCEPT !.data = callers[c].data_list]
          /\ Goto(c, [callers[c] EXCEPT !.pc = "empty"])
    /\ UNCHANGED <<sub, meta, mapping, attrs, cls, data, request_args, orig, prev, last, steps>>

\* if not cls.data: raise ValueError
CheckEmpty ==
    /\ \E c \in Callers :
          /\ callers[c].pc = "empty"
          /\ IF shared.data.kind = "list" /\ shared.data.items = <<>>
             THEN Raise(c, "ValueError")
             ELSE Goto(c, [callers[c] EXCEPT !.pc = "sample"])
    /\ UNCHANGED <<sub, shared, meta, mapping, attrs, cls, data, request_args, orig, prev,
                   last, steps>>

\* stack = [(cls.data[0], "")] and the loop over the stack, which works on
\* locals
Introspect ==
    /\ \E c \in Callers :
          /\ callers[c].pc = "sample"
          /\ IF shared.data.kind # "list" THEN Raise(c, "TypeError")
             ELSE IF shared.data.items = <<>> THEN Raise(c, "IndexError")
             ELSE Goto(c, [callers[c] EXCEPT
                              !.pc = "build",
                              !.attrs = process_iterable_data(shared.data.items[1])])
    /\ UNCHANGED <<sub, shared, meta, mapping, attrs, cls, data, request_args, orig, prev,
                   last, steps>>

\* src/lumi_filter/shortcut/shortcut.py: the isinstance tests on the argument
\* `data` and _process_iterable_data(data)
IntrospectLocal ==
    /\ \E c \in Callers :
          /\ callers[c].pc = "local"
          /\ IF callers[c].data.kind # "list" THEN Raise(c, "TypeError")
             ELSE IF callers[c].data.items = <<>> THEN Raise(c, "ValueError")
             ELSE Goto(c, [callers[c] EXCEPT
                              !.pc = "build",
                              !.attrs = process_iterable_data(callers[c].data.items[1])])
    /\ UNCHANGED <<sub, shared, meta, mapping, attrs, cls, data, request_args, orig, prev,
                   last, steps>>

\* return type("dynamic_filter_model", (Model,), attrs)(data=data,
\* request_args=request_args)
Build ==
    /\ \E c \in Callers :
          /\ callers[c].pc = "build"
          /\ LET class == ModelMeta_new(callers[c].attrs)
             IN IF class.status # "ok" THEN Raise(c, class.status)
                ELSE Goto(c, [callers[c] EXCEPT
                                 !.pc = "done",
                                 !.model = [cls |-> class, data |-> callers[c].data,
                                            request_args |-> callers[c].request_args]])
    /\ UNCHANGED <<sub, shared, meta, mapping, attrs, cls, data, request_args, orig, prev,
                   last, steps>>

NextRace ==
    \/ WriteData \/ WriteArgs \/ CheckType \/ ReadList \/ StoreList \/ CheckEmpty
    \/ Introspect \/ IntrospectLocal \/ Build

SpecRace == InitRace /\ [][NextRace]_vars

\* The call c has ended as the same call ends when it runs alone
EndsAsAlone(c) ==
    LET alone == AutoQueryModel_new(callers[c].data)
    IN /\ callers[c].pc = "raised" => callers[c].err = alone.err
       /\ callers[c].pc = "done" =>
             /\ alone.err = "none"
             /\ callers[c].model.cls = alone.cls
             /\ callers[c].model.data = callers[c].data
             /\ callers[c].model.request_args = callers[c].request_args

\* C30: two constructions that interleave do not interfere: under every
\* interleaving each call introspects the shape of its own data argument and
\* returns a model holding its own data and request_args.
C30_NoInterference == \A c \in Callers : EndsAsAlone(c)

\* What holds instead.  The model returned holds the caller's own arguments,
\* which are locals:
C30_ModelHoldsOwnArguments ==
    \A c \in Callers :
        callers[c].pc = "done" =>
            /\ callers[c].model.data = callers[c].data
            /\ callers[c].model.request_args = callers[c].request_args

\* ... the older copy, which introspects its argument, does not interfere:
C30_LocalIntrospectionDoesNotInterfere ==
    \A c \in Callers : callers[c].copy = "src" => EndsAsAlone(c)

\* ... and in lumi_filter/shortcut/shortcut.py the shape is that of the data
\* of one of the two calls, the other's whenever the other call wrote
\* AutoQueryModel.data in between
C30_ShapeOfSomeCall ==
    \A c \in Callers :
        callers[c].pc = "done" =>
            \E b \in Callers :
                /\ callers[b].data.kind = "list" /\ callers[b].data.items # <<>>
                /\ callers[c].model.cls =
                      ModelMeta_new(process_iterable_data(callers[b].data.items[1]))

\* ... and two calls on data of one shape end as they end alone
C30_SameDataDoesNotInterfere ==
    callers[1].data = callers[2].data => \A c \in Callers : EndsAsAlone(c)
====
